---- MODULE Spec2Model ----
(***************************************************************************)
(* StremThru: the qBittorrent streaming engine, its session cache and the  *)
(* paced proxy.                                                            *)
(*                                                                         *)
(*   Spec         the paced proxy (internal/shared/http_paced.go) serving  *)
(*                one request while the torrent client completes pieces    *)
(*   SessionSpec  the qBittorrent session cache and doRequest              *)
(*                (store/qbittorrent/client.go), two concurrent requests   *)
(*   SafeSpec     the safe-byte frontier as a function of the piece states *)
(*   RangeSpec    piece-level range availability as a function             *)
(*   LinkSpec     locked links, GenerateLink and AddMagnet of the           *)
(*                qBittorrent store (store/qbittorrent/store.go)           *)
(*   TokenSpec    proxy-link tokens (internal/shared/store.go): creation,  *)
(*                consumption and the decode cache                         *)
(*   MagnetSpec   AddMagnet and GetMagnet of one magnet against a backend  *)
(*                that lists, resolves and downloads it (MagnetFairSpec:   *)
(*                the same with the polling loop taking its steps)         *)
(*   AdapterSpec  parseToken, pathMapping.apply, buildFileURL, ListMagnets,*)
(*                progressToStatus and the fileOffset loop as functions of *)
(*                their arguments                                          *)
(*   ConnSpec     the connection limit of the content proxy                *)
(*                (internal/endpoint/proxy.go), three concurrent requests  *)
(*   CacheSpec    the per-hash caches of the qBittorrent store, one hash   *)
(*                held by two users on two backends                        *)
(*   SchedSpec    the job scheduler (internal/job/scheduler.go), one       *)
(*                scheduler in two instances                               *)
(***************************************************************************)
EXTENDS Integers, Sequences, FiniteSets, TLC

VARIABLES
    \* ---- paced proxy: the environment of one request
    header,         \* the inbound Range header, a sequence of characters
    method,         \* the method of the inbound request: r.Method
    states,         \* piece states of the torrent as qBittorrent reports them
    ctxDone,        \* r.Context().Done(): the client has disconnected
    now,            \* time.Now() in seconds, counted from the last poll that
                    \* reported progress (from the start of a wait before that):
                    \* the program compares only differences of times
    bodyLeft,       \* bytes the upstream response body still holds
    lookupFailures, \* safe-byte lookups that have failed so far
    \* ---- paced proxy: the locals of proxyResponsePaced
    pc,             \* position in proxyResponsePaced
    safeBytes,      \* last safeBytes returned by safeBytesFn
    fileSize,       \* last fileSize returned by safeBytesFn
    done,           \* last done returned by safeBytesFn
    rangeVerified,
    deadline,       \* deadline of the pre-request wait
    rangeStart,
    bytesWritten,
    lastSafe,
    stallDeadline,
    toRead,         \* length of the slice handed to the last Body.Read
    outcome,        \* what proxyResponsePaced returned / answered
    resumed,        \* history: the copy loop has read again after a sleep
    \* ---- qBittorrent session cache
    sessions,       \* APIClient.sessions for one (url, username) key
    srvValid,       \* SIDs the qBittorrent WebUI still accepts
    nextSid,        \* SIDs handed out so far
    clock,          \* time.Now(), minutes
    rq,             \* the in-flight doRequest calls
    \* ---- safe-byte frontier
    sb,             \* arguments and result of the function applied
    \* ---- proxy-link tokens
    tok,            \* the token presented to /v0/proxy and how it was made
    tpassword,      \* config.Auth.GetPassword of the token's user
    tnow,           \* time.Now(), minutes
    tcache,         \* proxyLinkTokenCache
    tres,           \* what the last UnwrapProxyLinkToken returned
    \* ---- qBittorrent store adapter against its backend
    backend,        \* the torrent of the magnet as the qBittorrent WebUI holds it
    call,           \* the AddMagnet call in progress and its locals
    results,        \* what the finished store calls returned, oldest first
    \* ---- content-proxy connections of one user
    connLimit,      \* config.ContentProxyConnectionLimit.Get(user)
    cpStore,        \* contentProxyConnectionStore.WithScope(user): request ids
    conn,           \* the GET requests to /v0/proxy in flight
    \* ---- the per-hash caches of the qBittorrent store, one hash
    qbitTorrent,        \* per backend: the piece states of the torrent, <<>> if absent
    torrentPropsCache,  \* <<>> or the entry of the hash
    pieceStatesCache,   \* <<>> or the entry of the hash
    fileProgressCache,  \* <<>> or the entry of hash:fileIndex
    cnow,               \* time.Now(), seconds
    answer,             \* the answer the proxy is acting on, <<>> if none
    \* ---- one job scheduler, registered in every instance of the program
    runExclusive,   \* conf.RunExclusive
    mu,             \* per instance: the caller of execute that holds sch.mu
    advisoryLock,   \* the holder of the advisory lock ("job", conf.Id)
    lastJob,        \* what jobTracker.GetLast returns, <<>> if nothing is tracked
    snow,           \* time.Now(), seconds
    sch,            \* per instance and caller: the position in execute
    returned        \* history: the instance whose execute returned last, and why

pacedVars == <<header, method, states, ctxDone, now, bodyLeft, lookupFailures, pc, safeBytes, fileSize, done,
               rangeVerified, deadline, rangeStart, bytesWritten, lastSafe,
               stallDeadline, toRead, outcome, resumed>>
sessVars == <<sessions, srvValid, nextSid, clock, rq>>
safeVars == <<sb>>
tokVars == <<tok, tpassword, tnow, tcache, tres>>
storeVars == <<backend, call, results>>
connVars == <<connLimit, cpStore, conn>>
cacheVars == <<qbitTorrent, torrentPropsCache, pieceStatesCache, fileProgressCache,
               cnow, answer>>
schedVars == <<runExclusive, mu, advisoryLock, lastJob, snow, sch, returned>>
restVars == <<connVars, cacheVars, schedVars>>
vars == <<pacedVars, sessVars, safeVars, tokVars, storeVars, restVars>>

Min(a, b) == IF a < b THEN a ELSE b
Max(a, b) == IF a > b THEN a ELSE b

\* Go's integer division truncates toward zero.
GoDiv(a, b) ==
    IF a >= 0 THEN a \div b ELSE -((-a) \div b)

(***************************************************************************)
(* Bounds of the model.                                                    *)
(***************************************************************************)
NumPieces == 3
PieceSize == 2^15       \* pieces are a power of two bytes
ShortRead == 2^14       \* a read that returns less than asked for
MaxLookupFailures == 1

(***************************************************************************)
(* Program constants.                                                      *)
(***************************************************************************)
progressStallTimeout == 120
PollInterval == 2
BufSize == 64 * 1024
Downloaded == 2

(***************************************************************************)
(* Strings are sequences of one-character strings.                         *)
(***************************************************************************)
DigitChars == <<"0", "1", "2", "3", "4", "5", "6", "7", "8", "9">>

IsDigit(c) == \E i \in 1..10 : DigitChars[i] = c

DigitVal(c) == (CHOOSE i \in 1..10 : DigitChars[i] = c) - 1

HasPrefix(s, p) ==
    Len(s) >= Len(p) /\ SubSeq(s, 1, Len(p)) = p

TrimPrefix(s, p) ==
    IF HasPrefix(s, p) THEN SubSeq(s, Len(p) + 1, Len(s)) ELSE s

\* strings.Index for a one-character separator, 0-based, -1 when absent
Index(s, c) ==
    IF \E i \in 1..Len(s) : s[i] = c
    THEN (CHOOSE i \in 1..Len(s) : s[i] = c /\ \A j \in 1..(i - 1) : s[j] # c) - 1
    ELSE -1

\* strings.SplitN(s, sep, 2) for a one-character separator
SplitN2(s, c) ==
    LET i == Index(s, c)
    IN  IF i < 0 THEN <<s>>
        ELSE <<SubSeq(s, 1, i), SubSeq(s, i + 2, Len(s))>>

RECURSIVE DigitsValue(_)
DigitsValue(s) ==
    IF s = <<>> THEN 0
    ELSE DigitsValue(SubSeq(s, 1, Len(s) - 1)) * 10 + DigitVal(s[Len(s)])

\* strconv.ParseInt(s, 10, 64): an optional sign, then decimal digits only.
\* The headers of the model hold numbers below 2^31, so the int64 range error
\* of ParseInt is out of reach and not modelled.
ParseInt(s) ==
    LET signed == Len(s) > 0 /\ s[1] \in {"+", "-"}
        digits == IF signed THEN SubSeq(s, 2, Len(s)) ELSE s
        wellFormed == Len(digits) > 0
                      /\ \A i \in 1..Len(digits) : IsDigit(digits[i])
        neg == signed /\ s[1] = "-"
    IN  IF ~wellFormed THEN [ok |-> FALSE, v |-> 0]
        ELSE [ok |-> TRUE,
              v |-> IF neg THEN -DigitsValue(digits) ELSE DigitsValue(digits)]

RECURSIVE FormatInt(_)
\* strconv.FormatInt(n, 10) for n >= 0
FormatInt(n) ==
    IF n < 10 THEN <<DigitChars[n + 1]>>
    ELSE FormatInt(n \div 10) \o <<DigitChars[(n % 10) + 1]>>

BytesEq == <<"b", "y", "t", "e", "s", "=">>

parseByteRange(rangeHeader) ==
    LET fail == [start |-> 0, end |-> 0, ok |-> FALSE]
    IN  IF ~HasPrefix(rangeHeader, BytesEq) THEN fail
        ELSE
        LET spec0 == TrimPrefix(rangeHeader, BytesEq)
            idx == Index(spec0, ",")
            spec == IF idx >= 0 THEN SubSeq(spec0, 1, idx) ELSE spec0
        IN  IF HasPrefix(spec, <<"-">>) THEN fail
            ELSE
            LET parts == SplitN2(spec, "-")
                s == ParseInt(parts[1])
            IN  IF ~s.ok THEN fail
                ELSE IF Len(parts) = 2 /\ parts[2] # <<>>
                     THEN LET e == ParseInt(parts[2])
                          IN  IF ~e.ok THEN fail
                              ELSE [start |-> s.v, end |-> e.v, ok |-> TRUE]
                ELSE [start |-> s.v, end |-> -1, ok |-> TRUE]

(***************************************************************************)
(* The torrent as the paced proxy sees it: one file of NumPieces pieces,   *)
(* first in the torrent.  states[p + 1] is the state of piece p.           *)
(***************************************************************************)
TorrentFile ==
    [offset |-> 0, size |-> NumPieces * PieceSize, first |-> 0, last |-> NumPieces - 1]

NoPieces == [p \in 1..NumPieces |-> 0]

AllDownloaded(st) == \A p \in 1..Len(st) : st[p] = Downloaded

\* The contiguous run of Downloaded pieces from firstPiece on, in bytes of the file.
PieceCountedUnlessDownloaded(p, st) == p >= Len(st) \/ st[p + 1] = Downloaded
PieceBreaks(p, st) == p >= Len(st) \/ st[p + 1] # Downloaded

RECURSIVE SafeLoop(_, _, _, _, _, _)
SafeLoop(p, safe, fileOffset, pieceSize, st, lastPiece) ==
    IF p > lastPiece \/ PieceBreaks(p, st) THEN safe
    ELSE SafeLoop(p + 1, Max(safe, (p + 1) * pieceSize - fileOffset),
                  fileOffset, pieceSize, st, lastPiece)

ClampNotBelowZero(safe, size) ==
    IF safe < 0 THEN 0 ELSE safe
ClampSafe(safe, size) ==
    LET clamped == IF safe > size THEN size ELSE safe
    IN  IF clamped < 0 THEN 0 ELSE clamped

ComputeSafeBytes(fileOffset, size, pieceSize, st, firstPiece, lastPiece) ==
    IF pieceSize <= 0 THEN 0
    ELSE IF firstPiece >= Len(st) THEN 0
    ELSE ClampSafe(SafeLoop(firstPiece, 0, fileOffset, pieceSize, st, lastPiece), size)

\* StoreClient.IsFileRangeAvailable from the piece states on: lp, ps, the clamp
\* of lastNeeded and the loop over the pieces needed.
LastNeededUnclamped(lastNeeded, lastPiece) == lastNeeded
ClampLastNeeded(lastNeeded, lastPiece) ==
    IF lastNeeded > lastPiece THEN lastPiece ELSE lastNeeded

\* for p := firstNeeded; p <= lastNeeded; p++
RECURSIVE NeededLoop(_, _, _)
NeededLoop(p, lastNeeded, st) ==
    IF p > lastNeeded THEN TRUE
    ELSE IF p >= Len(st) \/ st[p + 1] # Downloaded THEN FALSE
    ELSE NeededLoop(p + 1, lastNeeded, st)

checkRangeAvailable(fileOffset, pieceSize, st, lastPiece, rStart, rEnd) ==
    IF pieceSize <= 0 THEN FALSE
    ELSE IF lastPiece >= Len(st) THEN FALSE
    ELSE LET firstNeeded == GoDiv(fileOffset + rStart, pieceSize)
             lastNeeded == ClampLastNeeded(GoDiv(fileOffset + rEnd, pieceSize), lastPiece)
         IN  NeededLoop(firstNeeded, lastNeeded, st)

\* StoreClient.GetSafeBytes: the frontier of the file, its size, and whether the
\* file is complete.
GetSafeBytes(st) ==
    IF AllDownloaded(st)
    THEN [safe |-> TorrentFile.size, size |-> TorrentFile.size, done |-> TRUE]
    ELSE [safe |-> ComputeSafeBytes(TorrentFile.offset, TorrentFile.size, PieceSize, st,
                                    TorrentFile.first, TorrentFile.last),
          size |-> TorrentFile.size, done |-> FALSE]

IsFileRangeAvailable(st, rStart, rEnd) ==
    IF AllDownloaded(st) THEN TRUE
    ELSE checkRangeAvailable(TorrentFile.offset, PieceSize, st, TorrentFile.last,
                             rStart, rEnd)

\* safeBytesFn of ProxyTorrentResponse: every result the callback can give now.
\* A failed lookup is reported as (0, 0, done); failed says which result is one.
SafeBytesFnFailureNotDone(st) ==
    {[safe |-> GetSafeBytes(st).safe, size |-> GetSafeBytes(st).size,
      done |-> GetSafeBytes(st).done, failed |-> FALSE],
     [safe |-> 0, size |-> 0, done |-> FALSE, failed |-> TRUE]}
SafeBytesFn(st) ==
    {[safe |-> GetSafeBytes(st).safe, size |-> GetSafeBytes(st).size,
      done |-> GetSafeBytes(st).done, failed |-> FALSE],
     [safe |-> 0, size |-> 0, done |-> TRUE, failed |-> TRUE]}

\* The lookups of the model fail at most MaxLookupFailures times.
Polled(res) ==
    /\ res.failed => lookupFailures < MaxLookupFailures
    /\ lookupFailures' = IF res.failed THEN lookupFailures + 1 ELSE lookupFailures

\* isRangeAvailFn of ProxyTorrentResponse: a failed lookup is reported as false.
IsRangeAvailFn(st, rStart, rEnd) ==
    {IsFileRangeAvailable(st, rStart, rEnd), FALSE}

(***************************************************************************)
(* The requests of the model and the upstream file server.                 *)
(***************************************************************************)
RangeHeader(s, e) ==
    BytesEq \o FormatInt(s) \o <<"-">> \o (IF e < 0 THEN <<>> ELSE FormatInt(e))

Headers ==
    { <<>>,                                                  \* no Range
      RangeHeader(0, -1),                                    \* bytes=0-
      RangeHeader(PieceSize, 2 * PieceSize - 1)              \* a middle piece first,
          \o <<",">> \o FormatInt(0) \o <<"-">>,             \*   of a multi-range
      RangeHeader((NumPieces - 1) * PieceSize + ShortRead, -1),  \* the tail (moov atom)
      BytesEq \o <<"-">> \o FormatInt(ShortRead) }           \* suffix range bytes=-N

\* Length of the body the file server answers with.
UpstreamBodyLen(h) ==
    LET r == parseByteRange(h)
        size == TorrentFile.size
    IN  IF h = <<>> THEN size
        ELSE IF ~r.ok THEN Min(ShortRead, size)
        ELSE IF r.start >= size THEN 0
        ELSE (IF r.end < 0 \/ r.end >= size THEN size - 1 ELSE r.end) - r.start + 1

(***************************************************************************)
(* proxyResponsePaced                                                      *)
(***************************************************************************)
RangeEndAsGiven(end, size) ==
    end

\* line 139-142
RangeEnd(end, size) ==
    IF end < 0 THEN size - 1 ELSE end

\* line 134 and 156
BeyondFrontier(start, safe, dn) ==
    start >= safe /\ ~dn

\* line 152: the condition of the pre-request wait loop
PreWaitContinues(start, safe, dn, t, dl) ==
    start >= safe /\ ~dn /\ t < dl

StallDeadlineNeverReset(safe, last, sd, t) ==
    sd

\* line 207-210
GrownStallDeadline(safe, last, sd, t) ==
    IF safe > last THEN t + progressStallTimeout ELSE sd

MustWaitForFullBuffer(available, dn) ==
    available < BufSize /\ ~dn

\* line 215
MustWait(available, dn) ==
    available <= 0 /\ ~dn

\* line 216
StallExpiredOnePollLate(t, sd) == t > sd + PollInterval
StallExpired(t, sd) ==
    t > sd

ToReadUnclamped(dn, available) ==
    BufSize

\* line 223-226
ToRead(dn, available) ==
    IF ~dn /\ available < BufSize THEN available ELSE BufSize

\* response.Body.Read(buf[:limit]) with `left` bytes left in the body: the
\* results <<n, err>> it can give.
BodyRead(limit, left) ==
    IF left = 0 THEN {<<0, "EOF">>}
    ELSE LET full == Min(limit, left)
             sizes == {full} \cup (IF ShortRead < full THEN {ShortRead} ELSE {})
         IN  {<<n, "nil">> : n \in sizes}
             \cup (IF full = left THEN {<<full, "EOF">>} ELSE {})
             \cup {<<0, "read error">>}

Methods == {"GET", "HEAD"}

\* A HEAD request is answered without a body.
ResponseBodyLen(m, h) ==
    IF m = "HEAD" THEN 0 ELSE UpstreamBodyLen(h)

PacedInit ==
    /\ header \in Headers
    /\ method \in Methods
    /\ states = NoPieces
    /\ ctxDone = FALSE
    /\ now = 0
    /\ bodyLeft = 0
    /\ lookupFailures = 0
    /\ pc = "start"
    /\ safeBytes = 0
    /\ fileSize = 0
    /\ done = FALSE
    /\ rangeVerified = FALSE
    /\ deadline = 0
    /\ rangeStart = 0
    /\ bytesWritten = 0
    /\ lastSafe = 0
    /\ stallDeadline = 0
    /\ toRead = 0
    /\ outcome = "none"
    /\ resumed = FALSE

\* Lines 129-151: the Range header, the first safeBytesFn call, the piece-level
\* check, and the start of the pre-request wait.
Begin ==
    /\ pc = "start"
    /\ LET r == parseByteRange(header)
       IN  IF header # <<>> /\ r.ok
           THEN \E res \in SafeBytesFn(states) :
                  /\ Polled(res)
                  /\ safeBytes' = res.safe
                  /\ fileSize' = res.size
                  /\ done' = res.done
                  /\ IF BeyondFrontier(r.start, res.safe, res.done)
                     THEN \E avail \in IsRangeAvailFn(states, r.start,
                                                      RangeEnd(r.end, res.size)) :
                            /\ rangeVerified' = avail
                            /\ pc' = IF avail THEN "request" ELSE "prewait"
                            /\ deadline' = IF avail THEN deadline
                                           ELSE now + progressStallTimeout
                     ELSE /\ rangeVerified' = FALSE
                          /\ pc' = "request"
                          /\ deadline' = deadline
           ELSE /\ pc' = "request"
                /\ UNCHANGED <<lookupFailures, safeBytes, fileSize, done, rangeVerified,
                               deadline>>
    /\ UNCHANGED <<header, states, ctxDone, now, bodyLeft, rangeStart, bytesWritten,
                   lastSafe, stallDeadline, toRead, outcome, resumed>>
    /\ UNCHANGED method
    /\ UNCHANGED <<sessVars, safeVars, tokVars, storeVars, restVars>>

\* Lines 152-160: one iteration of the pre-request wait (sleep, then poll), or
\* its exit with 416 or towards the upstream request.
PreWait ==
    /\ pc = "prewait"
    /\ LET start == parseByteRange(header).start
       IN  IF PreWaitContinues(start, safeBytes, done, now, deadline)
           THEN \E res \in SafeBytesFn(states) :
                LET woke == now + PollInterval
                    epoch == IF res.safe > safeBytes THEN woke ELSE 0
                IN  /\ Polled(res)
                    /\ safeBytes' = res.safe
                    /\ fileSize' = res.size
                    /\ done' = res.done
                    /\ now' = woke - epoch
                    /\ deadline' = deadline - epoch
                    /\ UNCHANGED <<pc, outcome>>
           ELSE /\ IF BeyondFrontier(start, safeBytes, done)
                   THEN pc' = "done" /\ outcome' = "416"
                   ELSE pc' = "request" /\ outcome' = outcome
                /\ UNCHANGED <<now, lookupFailures, safeBytes, fileSize, done, deadline>>
    /\ UNCHANGED <<header, states, ctxDone, bodyLeft, rangeVerified, rangeStart,
                   bytesWritten, lastSafe, stallDeadline, toRead, resumed>>
    /\ UNCHANGED method
    /\ UNCHANGED <<sessVars, safeVars, tokVars, storeVars, restVars>>

\* Lines 166-197: the upstream request, the relayed status line, and the locals
\* of the copy.  The request carries the context of the inbound request.
Upstream ==
    /\ pc = "request"
    /\ \/ /\ ~ctxDone
          /\ pc' = IF rangeVerified THEN "raw" ELSE "copy"
          /\ bodyLeft' = ResponseBodyLen(method, header)
          /\ rangeStart' = IF rangeVerified THEN rangeStart
                           ELSE LET r == parseByteRange(header)
                                IN  IF header # <<>> /\ r.ok THEN r.start ELSE 0
          /\ lastSafe' = 0
          /\ now' = 0
          /\ stallDeadline' = IF rangeVerified THEN stallDeadline
                              ELSE now' + progressStallTimeout
          /\ outcome' = outcome
       \/ /\ pc' = "done"
          /\ outcome' = "bad gateway"
          /\ UNCHANGED <<now, bodyLeft, rangeStart, lastSafe, stallDeadline>>
    /\ deadline' = 0      \* out of scope from line 161 on
    /\ UNCHANGED <<header, states, ctxDone, lookupFailures, safeBytes, fileSize, done,
                   rangeVerified, bytesWritten, toRead, resumed>>
    /\ UNCHANGED method
    /\ UNCHANGED <<sessVars, safeVars, tokVars, storeVars, restVars>>

\* Line 181-183: io.Copy of the whole body, or of a part of it when the copy fails.
RawCopy ==
    /\ pc = "raw"
    /\ \E n \in {bodyLeft, Min(ShortRead, bodyLeft)} :
         /\ bytesWritten' = n
         /\ bodyLeft' = bodyLeft - n
         /\ outcome' = IF n = bodyLeft THEN "copied" ELSE "copy error"
    /\ pc' = "done"
    /\ UNCHANGED <<header, states, ctxDone, now, lookupFailures, safeBytes, fileSize, done,
                   rangeVerified, deadline, rangeStart, lastSafe, stallDeadline, toRead,
                   resumed>>
    /\ UNCHANGED method
    /\ UNCHANGED <<sessVars, safeVars, tokVars, storeVars, restVars>>

\* Lines 199-245: one iteration of the paced copy loop.
CopyIter ==
    /\ pc \in {"copy", "wait"}
    /\ IF ctxDone
       THEN /\ pc' = "done"
            /\ outcome' = "canceled"
            /\ UNCHANGED <<now, bodyLeft, lookupFailures, safeBytes, fileSize, done,
                           bytesWritten, lastSafe, stallDeadline, toRead, resumed>>
       ELSE \E res \in SafeBytesFn(states) :
            LET filePos == rangeStart + bytesWritten
                available == res.safe - filePos
                epoch == IF res.safe > lastSafe THEN now ELSE 0
                t == now - epoch
            IN  /\ Polled(res)
                /\ safeBytes' = res.safe
                /\ done' = res.done
                /\ lastSafe' = IF res.safe > lastSafe THEN res.safe ELSE lastSafe
                /\ stallDeadline' = GrownStallDeadline(res.safe, lastSafe,
                                                       stallDeadline - epoch, t)
                /\ fileSize' = fileSize
                /\ IF MustWait(available, res.done)
                   THEN /\ IF StallExpired(t, stallDeadline')
                           THEN pc' = "done" /\ outcome' = "stalled" /\ now' = t
                           ELSE pc' = "wait" /\ outcome' = outcome
                                /\ now' = t + PollInterval
                        /\ toRead' = 0
                        /\ UNCHANGED <<bodyLeft, bytesWritten, resumed>>
                   ELSE /\ toRead' = ToRead(res.done, available)
                        /\ now' = t
                        /\ resumed' = (resumed \/ pc = "wait")
                        /\ \E rd \in BodyRead(toRead', bodyLeft) :
                           \E wrote \in (IF rd[1] > 0 THEN {TRUE, FALSE} ELSE {TRUE}) :
                             /\ bodyLeft' = bodyLeft - rd[1]
                             /\ bytesWritten' = IF wrote THEN bytesWritten + rd[1]
                                                ELSE bytesWritten
                             /\ IF ~wrote
                                THEN pc' = "done" /\ outcome' = "write error"
                                ELSE IF rd[2] = "EOF"
                                THEN pc' = "done" /\ outcome' = "eof"
                                ELSE IF rd[2] # "nil"
                                THEN pc' = "done" /\ outcome' = "read error"
                                ELSE pc' = "copy" /\ outcome' = outcome
    /\ UNCHANGED <<header, states, ctxDone, rangeVerified, deadline, rangeStart>>
    /\ UNCHANGED method
    /\ UNCHANGED <<sessVars, safeVars, tokVars, storeVars, restVars>>

\* The torrent client completes a piece.
PieceCompletes ==
    /\ pc # "done"
    /\ \E p \in 1..NumPieces :
         /\ states[p] # Downloaded
         /\ states' = [states EXCEPT ![p] = Downloaded]
    /\ UNCHANGED <<header, ctxDone, now, bodyLeft, lookupFailures, pc, safeBytes, fileSize, done,
                   rangeVerified, deadline, rangeStart, bytesWritten, lastSafe,
                   stallDeadline, toRead, outcome, resumed>>
    /\ UNCHANGED method
    /\ UNCHANGED <<sessVars, safeVars, tokVars, storeVars, restVars>>

\* The client goes away: the context of the inbound request is cancelled.
Disconnect ==
    /\ pc # "done"
    /\ ~ctxDone
    /\ ctxDone' = TRUE
    /\ UNCHANGED <<header, states, now, bodyLeft, lookupFailures, pc, safeBytes, fileSize, done,
                   rangeVerified, deadline, rangeStart, bytesWritten, lastSafe,
                   stallDeadline, toRead, outcome, resumed>>
    /\ UNCHANGED method
    /\ UNCHANGED <<sessVars, safeVars, tokVars, storeVars, restVars>>

\* The GET requests a user can have in flight at once.
Requests == {1, 2, 3}
MaxLimit == 2

IdleConn == [pc |-> "idle", counted |-> 0, recorded |-> FALSE]

ConnIdle ==
    /\ connLimit = 0
    /\ cpStore = {}
    /\ conn = [r \in Requests |-> IdleConn]

CacheIdle ==
    /\ qbitTorrent = <<>>
    /\ torrentPropsCache = <<>>
    /\ pieceStatesCache = <<>>
    /\ fileProgressCache = <<>>
    /\ cnow = 0
    /\ answer = <<>>

SchedIdle ==
    /\ runExclusive = FALSE
    /\ mu = <<>>
    /\ advisoryLock = <<>>
    /\ lastJob = <<>>
    /\ snow = 0
    /\ sch = <<>>
    /\ returned = <<>>

RestIdle == ConnIdle /\ CacheIdle /\ SchedIdle

SessIdle ==
    /\ sessions = <<>>
    /\ srvValid = {}
    /\ nextSid = 0
    /\ clock = 0
    /\ rq = <<>>

SafeIdle == sb = <<>>

TokIdle ==
    /\ tok = <<>>
    /\ tpassword = <<>>
    /\ tnow = 0
    /\ tcache = <<>>
    /\ tres = <<>>

StoreIdle ==
    /\ backend = <<>>
    /\ call = <<>>
    /\ results = <<>>

Init == PacedInit /\ SessIdle /\ SafeIdle /\ TokIdle /\ StoreIdle /\ RestIdle

Next ==
    \/ Begin
    \/ PreWait
    \/ Upstream
    \/ RawCopy
    \/ CopyIter
    \/ PieceCompletes
    \/ Disconnect

Spec == Init /\ [][Next]_vars

(***************************************************************************)
(* Properties of the paced proxy (under Spec).                             *)
(***************************************************************************)
\* A step of the copy loop that reads from upstream (it neither returns on a
\* disconnect, nor sleeps, nor gives up).
PacedRead ==
    /\ pc \in {"copy", "wait"}
    /\ ~ctxDone
    /\ UNCHANGED <<states, ctxDone>>
    /\ pc' # "wait"
    /\ outcome' # "stalled"

\* C1: while the download is not done, each read of the paced copy is limited to
\* min(64 KiB, safeBytes - (rangeStart + bytesWritten)), and after the write
\* rangeStart + bytesWritten is at most the safeBytes the iteration polled.
C1_PacedBelowFrontier ==
    [][(PacedRead /\ ~done') =>
          /\ toRead' = Min(64 * 1024, safeBytes' - (rangeStart + bytesWritten))
          /\ bytesWritten' - bytesWritten <= toRead'
          /\ rangeStart + bytesWritten' <= safeBytes']_vars

C1_Witness ==
    /\ pc = "copy"
    /\ ~done
    /\ toRead > 0
    /\ toRead < BufSize
    /\ bytesWritten > 0
    /\ rangeStart + bytesWritten = safeBytes

\* Every piece that holds a byte of [s, e] is Downloaded.
CoveredDownloaded(s, e) ==
    \A p \in 0..(NumPieces - 1) :
        (p * PieceSize <= e /\ (p + 1) * PieceSize > s) => states[p + 1] = Downloaded

\* C4: the raw copy is taken only with rangeVerified, and rangeVerified only for
\* a parsable Range whose START is at or beyond safeBytes, with the download not
\* done and every piece covering [START, END] downloaded (END = fileSize - 1 when
\* the range is open-ended); the proxy then goes to the upstream request without
\* having waited.
C4_RawCopyOnlyWhenVerified ==
    /\ pc = "raw" => rangeVerified
    /\ pc = "prewait" => ~rangeVerified
    /\ rangeVerified =>
          LET r == parseByteRange(header)
          IN  /\ header # <<>>
              /\ r.ok
              /\ r.start >= safeBytes
              /\ ~done
              /\ CoveredDownloaded(r.start,
                                   IF r.end < 0 THEN TorrentFile.size - 1 ELSE r.end)
              /\ now = 0
              /\ deadline = 0

C4_Witness ==
    /\ pc = "raw"
    /\ rangeVerified
    /\ parseByteRange(header).end < 0
    /\ ~AllDownloaded(states)

\* C5: the pre-request wait answers 416 only after 120 s without progress of the
\* safe frontier (now counts the seconds since the last poll that reported
\* progress, or since the wait began).
C5_416OnlyAfterStall ==
    outcome = "416" => now >= progressStallTimeout

\* C6: in the copy loop the stall deadline always lies 120 s after the last poll
\* that reported more safe bytes than any before (or after the start of the loop),
\* and the loop gives up with "download stalled" only with nothing available, the
\* download not done and more than 120 s gone since then.
C6_StallOnlyAfterTimeout ==
    /\ pc \in {"copy", "wait"} => stallDeadline = progressStallTimeout
    /\ outcome = "stalled" =>
          /\ safeBytes - (rangeStart + bytesWritten) <= 0
          /\ ~done
          /\ now > progressStallTimeout

C6_Witness ==
    /\ outcome = "stalled"
    /\ lastSafe > 0
    /\ bytesWritten > 0

\* C7: when the copy loop has slept at the frontier and the frontier has since
\* grown past rangeStart + bytesWritten, the next iteration reads (it neither
\* sleeps again nor gives up), and what it forwards lies past the old frontier.
C7_ResumesAfterGrowth ==
    [][(/\ pc = "wait"
        /\ ~ctxDone
        /\ UNCHANGED <<states, ctxDone>>
        /\ GetSafeBytes(states).safe > rangeStart + bytesWritten)
       => /\ pc' # "wait"
          /\ outcome' # "stalled"
          /\ toRead' > 0
          /\ pc' = "copy" => rangeStart + bytesWritten' > safeBytes]_vars

C7_Witness ==
    /\ resumed
    /\ pc = "copy"
    /\ ~done
    /\ lookupFailures = 0
    /\ bytesWritten > 0

\* C8: every loop of the paced proxy, the pre-request wait included, returns the
\* cancellation error in the iteration that finds the client gone.
C8_DisconnectEndsEveryLoop ==
    [][(/\ ctxDone
        /\ pc \in {"prewait", "copy", "wait"}
        /\ UNCHANGED states)
       => (pc' = "done" /\ outcome' = "canceled")]_vars

\* C31: a HEAD request is answered once the upstream status and headers are
\* relayed: its copy loop never sleeps waiting for download progress and never
\* ends with the stall error.
C31_HeadNeverWaitsForBody ==
    method = "HEAD" => (pc # "wait" /\ outcome # "stalled")

\* The time the copy loop has spent without growth of the frontier.
C36_StallBounded ==
    /\ pc \in {"copy", "wait"} => now <= progressStallTimeout + PollInterval
    /\ outcome = "stalled" =>
         (now > progressStallTimeout /\ now <= progressStallTimeout + PollInterval)
    /\ pc = "wait" => ENABLED CopyIter

\* C36: the paced copy does not stay waiting. The time waited since the last
\* growth of the frontier never passes 120 s plus one 2 s poll; a waiting
\* reader can always take its next iteration, and an iteration that keeps
\* waiting has seen the frontier grow or has slept one more poll; the wait of
\* a reader whose frontier has stopped growing ends with the stall error, more
\* than 120 s and at most 120 s plus one poll after the last growth.
C36_NeverWaitsForever ==
    /\ []C36_StallBounded
    /\ [][(/\ pc = "wait"
           /\ pc' = "wait"
           /\ states' = states
           /\ ctxDone' = ctxDone)
          => (lastSafe' > lastSafe \/ now' = now + PollInterval)]_vars
    /\ [][(/\ pc = "wait"
           /\ pc' # "wait"
           /\ ~ctxDone
           /\ ~done'
           /\ safeBytes' <= rangeStart + bytesWritten)
          => outcome' = "stalled"]_vars

C36_Witness ==
    /\ pc = "done"
    /\ outcome = "stalled"
    /\ now = progressStallTimeout + PollInterval
    /\ bytesWritten > 0
    /\ rangeStart + bytesWritten = safeBytes
    /\ ~done

\* C37: a failed safe-byte lookup is reported as done: the step that makes it
\* does not start or continue a wait, does not answer 416 and does not end
\* with the stall error; in the copy loop it reads a full buffer, and a
\* pre-request wait that sees done goes on to the upstream request.
C37_LookupFailureMeansDone ==
    /\ [][lookupFailures' > lookupFailures =>
            /\ done'
            /\ pc' # "wait"
            /\ outcome' \notin {"416", "stalled"}
            /\ pc = "start" => pc' = "request"
            /\ (pc \in {"copy", "wait"}) => toRead' = BufSize]_vars
    /\ [][(pc = "prewait" /\ done /\ pc' # pc) => pc' = "request"]_vars

C37_Witness ==
    /\ lookupFailures = 1
    /\ pc = "copy"
    /\ resumed
    /\ toRead = BufSize
    /\ ~AllDownloaded(states)
    /\ rangeStart + bytesWritten > GetSafeBytes(states).safe

(***************************************************************************)
(* The qBittorrent session cache and doRequest (store/qbittorrent/client.go)*)
(* for one (url, username) key, called by two goroutines.                  *)
(* sessions is <<>> while the sync.Map has no entry for the key and        *)
(* <<entry>> while it has one. A client is identified by the SID its       *)
(* cookie jar received at login.                                           *)
(***************************************************************************)
MaxLogins == 3          \* logins the WebUI answers with a SID
MaxClock == 56          \* minutes
ClockSteps == {27, 28}  \* minutes the clock moves in one step

sessionLifetime == 55   \* minutes
StatusOK == 200
StatusForbidden == 403

Procs == {1, 2}          \* the goroutines inside doRequest

\* What POST /api/v2/auth/login can be answered with: status 0 stands for a
\* transport error (no response), sid for an SID cookie left in the jar.
NoResponse == [status |-> 0, sid |-> FALSE]
LoginResponses ==
    {NoResponse,
     [status |-> StatusOK, sid |-> TRUE],
     [status |-> StatusOK, sid |-> FALSE],
     [status |-> 401, sid |-> FALSE],
     [status |-> StatusForbidden, sid |-> TRUE]}

\* The error login returns: UpstreamErrorWithCause copies the status of a
\* QbitError into StatusCode and leaves it unset (0) for any other cause.
NoError == [kind |-> "nil", status |-> 0, cause |-> ""]
UpstreamError(status, cause) == [kind |-> "upstream", status |-> status, cause |-> cause]

loginErrIgnoringStatus(resp) ==
    IF resp = NoResponse THEN UpstreamError(0, "qbittorrent login failed")
    ELSE IF ~resp.sid
    THEN UpstreamError(0, "qbittorrent login failed: no SID cookie received")
    ELSE NoError
loginErrIgnoringSID(resp) ==
    IF resp = NoResponse THEN UpstreamError(0, "qbittorrent login failed")
    ELSE IF resp.status # StatusOK THEN UpstreamError(resp.status, "QbitError")
    ELSE NoError
loginErr(resp) ==
    IF resp = NoResponse THEN UpstreamError(0, "qbittorrent login failed")
    ELSE IF resp.status # StatusOK THEN UpstreamError(resp.status, "QbitError")
    ELSE IF ~resp.sid
    THEN UpstreamError(0, "qbittorrent login failed: no SID cookie received")
    ELSE NoError

IdleRq ==
    [pc |-> "idle", attempt |-> 0, client |-> 0, sent |-> 0, rejected |-> 0,
     last |-> 0, result |-> "none", cache |-> "none",
     loginResp |-> NoResponse, loginErr |-> NoError]

\* time.Now().Before(se.expires)
SessionExpiredAtDeadline(t, expires) == t <= expires
SessionStaleInLastMinute(t, expires) == t + 1 < expires
SessionFresh(t, expires) == t < expires

\* Retry once on 403 (session expired)
RetryOnEvery403(status, attempt) == status = StatusForbidden
RetryOn403(status, attempt) == status = StatusForbidden /\ attempt = 0

\* What the WebUI answers to a request that carries the client's SID.
ServerStatus(client) ==
    IF client \in srvValid THEN StatusOK ELSE StatusForbidden

PacedIdle == PacedInit /\ header = <<>> /\ method = "GET"

SessionInit ==
    /\ PacedIdle
    /\ RestIdle
    /\ SafeIdle
    /\ TokIdle
    /\ StoreIdle
    /\ sessions = <<>>
    /\ srvValid = {}
    /\ nextSid = 0
    /\ clock = 0
    /\ rq = [p \in Procs |-> IdleRq]

\* A caller enters doRequest.
Call(p) ==
    /\ rq[p].pc = "idle"
    /\ rq' = [rq EXCEPT ![p] = [IdleRq EXCEPT !.pc = "session"]]
    /\ UNCHANGED <<sessions, srvValid, nextSid, clock>>
    /\ UNCHANGED <<pacedVars, safeVars, tokVars, storeVars, restVars>>

\* The head of the loop of doRequest and getOrCreateSession up to the login.
GetOrCreateSession(p) ==
    /\ rq[p].pc = "session"
    /\ IF rq[p].attempt >= 2
       THEN rq' = [rq EXCEPT ![p].pc = "done", ![p].result = "failed after retry"]
       ELSE IF Len(sessions) > 0 /\ SessionFresh(clock, sessions[1].expires)
            THEN rq' = [rq EXCEPT ![p].pc = "send", ![p].client = sessions[1].client,
                                  ![p].cache = "fresh"]
            ELSE rq' = [rq EXCEPT ![p].pc = "login",
                                  ![p].cache = IF Len(sessions) > 0 THEN "expired"
                                               ELSE "missing"]
    /\ UNCHANGED <<sessions, srvValid, nextSid, clock>>
    /\ UNCHANGED <<pacedVars, safeVars, tokVars, storeVars, restVars>>

\* login: the POST to /api/v2/auth/login and the checks of its response.
LoginPost(p) ==
    /\ rq[p].pc = "login"
    /\ \E resp \in LoginResponses :
          IF loginErr(resp) = NoError
          THEN /\ nextSid < MaxLogins
               /\ nextSid' = nextSid + 1
               /\ srvValid' = IF resp.sid THEN srvValid \cup {nextSid + 1}
                              ELSE srvValid
               /\ rq' = [rq EXCEPT ![p].pc = "store", ![p].client = nextSid + 1,
                                   ![p].loginResp = resp]
          ELSE /\ rq' = [rq EXCEPT ![p].pc = "done", ![p].result = "login failed",
                                   ![p].loginResp = resp,
                                   ![p].loginErr = loginErr(resp)]
               /\ UNCHANGED <<srvValid, nextSid>>
    /\ UNCHANGED <<sessions, clock>>
    /\ UNCHANGED <<pacedVars, safeVars, tokVars, storeVars, restVars>>

\* login: the new entry is stored and the client returned.
LoginStore(p) ==
    /\ rq[p].pc = "store"
    /\ sessions' = <<[client |-> rq[p].client,
                      expires |-> clock + sessionLifetime,
                      loginAt |-> clock,
                      attempt |-> rq[p].attempt]>>
    /\ rq' = [rq EXCEPT ![p].pc = "send"]
    /\ UNCHANGED <<srvValid, nextSid, clock>>
    /\ UNCHANGED <<pacedVars, safeVars, tokVars, storeVars, restVars>>

\* client.Do and what doRequest does with the response.
Request(p) ==
    /\ rq[p].pc = "send"
    /\ \/ /\ rq' = [rq EXCEPT ![p].pc = "done", ![p].result = "transport error"]
          /\ UNCHANGED sessions
       \/ LET status == ServerStatus(rq[p].client)
          IN  IF RetryOn403(status, rq[p].attempt)
              THEN /\ sessions' = <<>>
                   /\ rq' = [rq EXCEPT ![p].pc = "session",
                                       ![p].attempt = rq[p].attempt + 1,
                                       ![p].sent = rq[p].sent + 1,
                                       ![p].last = status,
                                       ![p].rejected = rq[p].client]
              ELSE /\ rq' = [rq EXCEPT ![p].pc = "done",
                                       ![p].sent = rq[p].sent + 1,
                                       ![p].last = status,
                                       ![p].result = "response"]
                   /\ UNCHANGED sessions
    /\ UNCHANGED <<srvValid, nextSid, clock>>
    /\ UNCHANGED <<pacedVars, safeVars, tokVars, storeVars, restVars>>

\* doRequest has returned to its caller.
Return(p) ==
    /\ rq[p].pc = "done"
    /\ rq' = [rq EXCEPT ![p] = IdleRq]
    /\ UNCHANGED <<sessions, srvValid, nextSid, clock>>
    /\ UNCHANGED <<pacedVars, safeVars, tokVars, storeVars, restVars>>

\* The WebUI forgets a session (its own timeout, a restart, a logout).
ServerExpire ==
    /\ \E sid \in srvValid : srvValid' = srvValid \ {sid}
    /\ UNCHANGED <<sessions, nextSid, clock, rq>>
    /\ UNCHANGED <<pacedVars, safeVars, tokVars, storeVars, restVars>>

Tick ==
    /\ \E d \in ClockSteps :
         /\ clock + d <= MaxClock
         /\ clock' = clock + d
    /\ UNCHANGED <<sessions, srvValid, nextSid, rq>>
    /\ UNCHANGED <<pacedVars, safeVars, tokVars, storeVars, restVars>>

DoCall == \E p \in Procs : Call(p)
DoGetOrCreateSession == \E p \in Procs : GetOrCreateSession(p)
DoLoginPost == \E p \in Procs : LoginPost(p)
DoLoginStore == \E p \in Procs : LoginStore(p)
DoRequest == \E p \in Procs : Request(p)
DoReturn == \E p \in Procs : Return(p)

SessionNext ==
    \/ DoCall
    \/ DoGetOrCreateSession
    \/ DoLoginPost
    \/ DoLoginStore
    \/ DoRequest
    \/ DoReturn
    \/ ServerExpire
    \/ Tick

SessionSpec == SessionInit /\ [][SessionNext]_vars

(***************************************************************************)
(* Properties of the session cache (under SessionSpec).                    *)
(***************************************************************************)
\* The step of p in which its request is answered (not a transport error).
Answered(p) ==
    /\ rq[p].pc = "send"
    /\ rq'[p] # rq[p]
    /\ rq'[p].result # "transport error"

C3_ReuseOnlyWithin55Minutes ==
    [][\A p \in Procs :
          (rq[p].pc = "session" /\ rq'[p] # rq[p]) =>
              /\ rq'[p].pc = "send" =>
                    /\ sessions # <<>>
                    /\ clock - sessions[1].loginAt < 55
                    /\ rq'[p].client = sessions[1].client
              /\ (sessions # <<>> /\ clock - sessions[1].loginAt >= 55) =>
                    rq'[p].pc = "login"]_vars

C3_Witness ==
    \E p \in Procs :
        /\ rq[p].pc = "login"
        /\ rq[p].cache = "expired"
        /\ sessions # <<>>
        /\ clock - sessions[1].loginAt = 55
        /\ sessions[1].client \in srvValid

C25_FreshSessionReused ==
    [][\A p \in Procs :
          (/\ rq[p].pc = "session"
           /\ rq'[p] # rq[p]
           /\ sessions # <<>>
           /\ clock - sessions[1].loginAt < 55) =>
              /\ rq'[p].pc = "send"
              /\ rq'[p].client = sessions[1].client
              /\ nextSid' = nextSid
              /\ sessions' = sessions]_vars

C25_Witness ==
    \E p \in Procs :
        /\ rq[p].pc = "send"
        /\ rq[p].attempt = 0
        /\ rq[p].cache = "fresh"
        /\ sessions # <<>>
        /\ sessions[1].attempt = 1
        /\ clock - sessions[1].loginAt = 54
        /\ rq[p].client = sessions[1].client


\* The request of p found no usable session and made its own login.
Raced(p) == rq[p].cache \in {"missing", "expired"}

\* C34: when the goroutines race on a missing or expired session each makes
\* its own login; the table holds at most one entry for the key, and a store
\* leaves exactly the entry of the login that stored last; a racing request
\* is sent only with the client of its own login, which was answered 200 with
\* an SID; and a racing request ends only with the response to its request, a
\* transport error, or the error of a login the WebUI refused, never with
\* "failed after retry".
C34_RacingLoginsAllComplete ==
    /\ [](/\ Len(sessions) <= 1
          /\ \A p \in Procs :
               /\ (rq[p].pc = "send" /\ Raced(p)) =>
                     /\ rq[p].client \in 1..nextSid
                     /\ rq[p].loginResp = [status |-> StatusOK, sid |-> TRUE]
                     /\ \A q \in Procs \ {p} :
                          (rq[q].pc = "send" /\ Raced(q)) =>
                              rq[q].client # rq[p].client
               /\ rq[p].pc = "send" => rq[p].client \in 1..nextSid
               /\ rq[p].result # "failed after retry"
               /\ rq[p].result = "login failed" =>
                     loginErr(rq[p].loginResp) # NoError)
    /\ [][\A p \in Procs :
            (rq[p].pc = "store" /\ rq'[p] # rq[p]) =>
                /\ Len(sessions') = 1
                /\ sessions'[1].client = rq[p].client
                /\ rq'[p].pc = "send"
                /\ rq'[p].client = rq[p].client]_vars

C34_Witness ==
    /\ \A p \in Procs :
         /\ rq[p].pc = "done"
         /\ Raced(p)
         /\ rq[p].attempt = 0
         /\ rq[p].result = "response"
         /\ rq[p].last = StatusOK
    /\ rq[1].client # rq[2].client
    /\ Len(sessions) = 1
    /\ sessions[1].client = rq[1].client
    /\ rq[2].client > rq[1].client

\* C35: a 403 answered to a request sent with one client leaves the table as
\* it is when the table holds the newer client of another login.
C35_InvalidationOnlyOwnSession ==
    [][\A p \in Procs :
          (/\ Answered(p)
           /\ rq'[p].last = StatusForbidden
           /\ sessions # <<>>
           /\ sessions[1].client > rq[p].client)
          => sessions' = sessions]_vars

(***************************************************************************)
(* The safe-byte frontier as a function of its arguments: computeSafeBytes *)
(* applied to arguments drawn from bounded sets, and again each time the   *)
(* torrent client completes a piece.                                       *)
(***************************************************************************)
MaxStates == 3          \* pieces reported, at most
MaxPiece == 3           \* largest piece index of a file
MaxFileOffset == 5
MaxFileSize == 6
PieceSizes == {0, 2, 3}
PieceStates == {0, 1, Downloaded}

StatesUpTo(n) == UNION {[1..k -> PieceStates] : k \in 0..n}

SafeInit ==
    /\ PacedIdle
    /\ RestIdle
    /\ SessIdle
    /\ TokIdle
    /\ StoreIdle
    /\ \E fileOffset \in 0..MaxFileOffset, size \in 0..MaxFileSize,
          pieceSize \in PieceSizes, st \in StatesUpTo(MaxStates),
          firstPiece \in 0..MaxPiece, lastPiece \in 0..MaxPiece :
         /\ firstPiece <= lastPiece
         /\ sb = [fileOffset |-> fileOffset, fileSize |-> size, pieceSize |-> pieceSize,
                  states |-> st, firstPiece |-> firstPiece, lastPiece |-> lastPiece,
                  safe |-> -1, completed |-> 0]

SafeOf(a) ==
    ComputeSafeBytes(a.fileOffset, a.fileSize, a.pieceSize, a.states,
                     a.firstPiece, a.lastPiece)

\* computeSafeBytes is called on the arguments.
Compute ==
    /\ sb.safe < 0
    /\ sb' = [sb EXCEPT !.safe = SafeOf(sb)]
    /\ UNCHANGED <<pacedVars, sessVars, tokVars, storeVars, restVars>>

\* A piece completes and computeSafeBytes is called on the new states.
CompleteAndCompute ==
    /\ sb.safe >= 0
    /\ \E i \in 1..Len(sb.states) :
         /\ sb.states[i] # Downloaded
         /\ LET a == [sb EXCEPT !.states[i] = Downloaded]
            IN  sb' = [a EXCEPT !.safe = SafeOf(a), !.completed = sb.completed + 1]
    /\ UNCHANGED <<pacedVars, sessVars, tokVars, storeVars, restVars>>

SafeNext ==
    \/ Compute
    \/ CompleteAndCompute

SafeSpec == SafeInit /\ [][SafeNext]_vars

(***************************************************************************)
(* Properties of the safe-byte frontier (under SafeSpec).                  *)
(***************************************************************************)
\* The first piece of firstPiece..lastPiece+1 that is not Downloaded or lies
\* outside states; lastPiece+1 when there is none up to lastPiece.
FirstGap(a) ==
    LET gaps == {p \in (a.firstPiece)..(a.lastPiece) :
                    p >= Len(a.states) \/ a.states[p + 1] # Downloaded}
    IN  IF gaps = {} THEN a.lastPiece + 1
        ELSE CHOOSE p \in gaps : \A g \in gaps : p <= g

\* min(fileSize, max(0, q*pieceSize - fileOffset))
Frontier(a, q) == Min(a.fileSize, Max(0, q * a.pieceSize - a.fileOffset))

\* C9 as stated: for pieceSize > 0 the result is
\* min(fileSize, max(0, q*pieceSize - fileOffset)), q the first piece of
\* firstPiece..lastPiece+1 that is not Downloaded or lies outside states.
C9_ClosedForm ==
    (sb # <<>> /\ sb.safe >= 0 /\ sb.pieceSize > 0) =>
        sb.safe = Frontier(sb, FirstGap(sb))

\* C9, amended: for pieceSize > 0 the result is 0 when firstPiece itself is not
\* Downloaded or lies outside states, and min(fileSize, max(0, q*pieceSize -
\* fileOffset)) otherwise; so it is fileSize at most, it is the whole run up to
\* lastPiece clamped to fileSize when all pieces are Downloaded, and a Downloaded
\* piece after the gap q adds nothing.
C9_ContiguousRun ==
    (sb # <<>> /\ sb.safe >= 0 /\ sb.pieceSize > 0) =>
        LET q == FirstGap(sb)
        IN  /\ q = sb.firstPiece => sb.safe = 0
            /\ q > sb.firstPiece => sb.safe = Frontier(sb, q)
            /\ sb.safe <= sb.fileSize
            /\ sb.safe = SafeOf([sb EXCEPT !.states =
                                    [i \in 1..Len(sb.states) |->
                                        IF i > q + 1 THEN 0 ELSE sb.states[i]]])

C9_Witness ==
    /\ sb # <<>>
    /\ sb.safe = 0
    /\ sb.pieceSize > 0
    /\ sb.fileSize > 0
    /\ FirstGap(sb) = sb.firstPiece
    /\ sb.firstPiece * sb.pieceSize > sb.fileOffset
    /\ \E i \in 1..Len(sb.states) : i > sb.firstPiece + 1 /\ sb.states[i] = Downloaded

\* C10: when further pieces complete and nothing else changes, the result of
\* computeSafeBytes does not decrease.
C10_Monotone ==
    [][(sb # <<>> /\ sb.safe >= 0) => sb'.safe >= sb.safe]_vars

C10_Witness ==
    /\ sb # <<>>
    /\ sb.completed >= 2
    /\ sb.safe > 0
    /\ sb.safe < sb.fileSize
    /\ \E i \in 1..Len(sb.states) : sb.states[i] # Downloaded

(***************************************************************************)
(* Piece-level range availability as a function of its arguments:          *)
(* checkRangeAvailable applied to arguments drawn from bounded sets, and   *)
(* again each time the torrent client completes a piece.                   *)
(***************************************************************************)
MaxRange == 6           \* largest byte position of a range

RangeInit ==
    /\ PacedIdle
    /\ RestIdle
    /\ SessIdle
    /\ TokIdle
    /\ StoreIdle
    /\ \E fileOffset \in 0..MaxFileOffset, pieceSize \in PieceSizes,
          st \in StatesUpTo(MaxStates), lastPiece \in 0..MaxPiece,
          rStart \in 0..MaxRange, rEnd \in 0..MaxRange :
         /\ rStart <= rEnd
         /\ sb = [fileOffset |-> fileOffset, pieceSize |-> pieceSize, states |-> st,
                  lastPiece |-> lastPiece, rangeStart |-> rStart, rangeEnd |-> rEnd,
                  checked |-> FALSE, available |-> FALSE]

AvailableOf(a) ==
    checkRangeAvailable(a.fileOffset, a.pieceSize, a.states, a.lastPiece,
                        a.rangeStart, a.rangeEnd)

\* checkRangeAvailable is called on the arguments.
CheckRange ==
    /\ ~sb.checked
    /\ sb' = [sb EXCEPT !.checked = TRUE, !.available = AvailableOf(sb)]
    /\ UNCHANGED <<pacedVars, sessVars, tokVars, storeVars, restVars>>

\* A piece completes and checkRangeAvailable is called on the new states.
CompleteAndCheck ==
    /\ sb.checked
    /\ \E i \in 1..Len(sb.states) :
         /\ sb.states[i] # Downloaded
         /\ LET a == [sb EXCEPT !.states[i] = Downloaded]
            IN  sb' = [a EXCEPT !.available = AvailableOf(a)]
    /\ UNCHANGED <<pacedVars, sessVars, tokVars, storeVars, restVars>>

RangeNext ==
    \/ CheckRange
    \/ CompleteAndCheck

RangeSpec == RangeInit /\ [][RangeNext]_vars

(***************************************************************************)
(* Properties of the range availability (under RangeSpec).                 *)
(***************************************************************************)
\* C11: the result is true exactly when pieceSize > 0, lastPiece < len(states)
\* and every piece from (fileOffset + rangeStart) / pieceSize through
\* min((fileOffset + rangeEnd) / pieceSize, lastPiece) is Downloaded; the states
\* of the pieces beyond lastPiece do not matter.
C11_RangeAvailableExactly ==
    (sb # <<>> /\ sb.checked) =>
        /\ sb.available =
              /\ sb.pieceSize > 0
              /\ sb.lastPiece < Len(sb.states)
              /\ \A p \in ((sb.fileOffset + sb.rangeStart) \div sb.pieceSize)..
                          Min((sb.fileOffset + sb.rangeEnd) \div sb.pieceSize,
                              sb.lastPiece) :
                     sb.states[p + 1] = Downloaded
        /\ \A v \in PieceStates :
              sb.available =
                 AvailableOf([sb EXCEPT !.states =
                                [i \in 1..Len(sb.states) |->
                                    IF i > sb.lastPiece + 1 THEN v ELSE sb.states[i]]])

C11_Witness ==
    /\ sb # <<>>
    /\ sb.checked
    /\ sb.available
    /\ sb.pieceSize > 0
    /\ sb.rangeStart < sb.rangeEnd
    /\ (sb.fileOffset + sb.rangeEnd) \div sb.pieceSize > sb.lastPiece
    /\ Len(sb.states) > sb.lastPiece + 1
    /\ sb.states[sb.lastPiece + 2] # Downloaded

(***************************************************************************)
(* Proxy-link tokens (internal/shared/store.go): CreateProxyLink,          *)
(* UnwrapProxyLinkToken and the decode cache, for one token of one user.   *)
(* JSON, base64, the JWT signature and the AES encryption are kept as      *)
(* structure: a JWT records the key that signed it, a ciphertext the       *)
(* password that encrypted it. The strings the program itself joins and    *)
(* cuts ("user:password", the link blob) are sequences of characters.      *)
(* A header map is a function from keys to values; Go's nil map is the     *)
(* empty one.                                                              *)
(***************************************************************************)
proxyLinkTokenLifetime == 30        \* minutes
playbackExpiresIn == 12 * 60        \* minutes
Instants == {0, 1, 29, 30, 31, 719, 720, 721, 749, 750, 751}

EncryptionFormat == "aes"           \* core.EncryptionFormat
UnknownFormats == {"", "rot13"}

TheUser == <<"u">>
Passwords == {<<"p">>, <<"p", ":", "q">>}
Links == {<<"h", "/", "a">>, <<"h", "?", "a", ":", " ", "b">>}
NoHeaders == [k \in {} |-> <<>>]
HeaderMaps ==
    {NoHeaders,
     [k \in {<<"K">>} |-> <<"a", ":", " ", "b">>],
     [k \in {<<"K">>, <<"X", "-", "Y">>} |-> IF k = <<"K">> THEN <<"v">> ELSE <<>>]}
TunnelTypes == {"", "forced"}

\* strings.Index for a separator of any length, 0-based, -1 when absent
IndexOf(s, sep) ==
    LET at(i) == i + Len(sep) - 1 <= Len(s) /\ SubSeq(s, i, i + Len(sep) - 1) = sep
    IN  IF \E i \in 1..Len(s) : at(i)
        THEN (CHOOSE i \in 1..Len(s) : at(i) /\ \A j \in 1..(i - 1) : ~at(j)) - 1
        ELSE -1

\* strings.Cut
Cut(s, sep) ==
    LET i == IndexOf(s, sep)
    IN  IF i < 0 THEN [before |-> s, after |-> <<>>, found |-> FALSE]
        ELSE [before |-> SubSeq(s, 1, i),
              after |-> SubSeq(s, i + Len(sep) + 1, Len(s)), found |-> TRUE]

\* Every order in which Go may range over the map.
Orders(h) ==
    {o \in [1..Cardinality(DOMAIN h) -> DOMAIN h] :
        \A i, j \in DOMAIN o : i # j => o[i] # o[j]}

RECURSIVE LinkBlobColonOnly(_, _, _)
LinkBlobColonOnly(link, h, order) ==
    IF order = <<>> THEN link
    ELSE LinkBlobColonOnly(link \o <<"\n">> \o order[1] \o <<":">> \o h[order[1]],
                           h, Tail(order))

\* linkBlob: the link, then "\n" + k + ": " + v for the headers as ranged over
RECURSIVE LinkBlob(_, _, _)
LinkBlob(link, h, order) ==
    IF order = <<>> THEN link
    ELSE LinkBlob(link \o <<"\n">> \o order[1] \o <<":", " ">> \o h[order[1]],
                  h, Tail(order))

\* for header := range strings.SplitSeq(headersBlob, "\n")
RECURSIVE ParseHeaders(_, _)
ParseHeaders(blob, h) ==
    LET line == Cut(blob, <<"\n">>)
        kv == Cut(line.before, <<":", " ">>)
        h1 == IF kv.found
              THEN [k \in DOMAIN h \cup {kv.before} |->
                       IF k = kv.before THEN kv.after ELSE h[k]]
              ELSE h
    IN  IF line.found THEN ParseHeaders(line.after, h1) ELSE h1

\* config.Auth.GetPassword
GetPassword(user) == IF user = TheUser THEN tpassword ELSE <<>>

\* The encoded token CreateProxyLink puts in the link.
EncodedToken(link, headers, order, tunnelType, expiresIn, user, password, shouldEncrypt) ==
    IF ~shouldEncrypt /\ expiresIn = 0
    THEN [form |-> "base64.",
          u |-> user \o <<":">> \o password, v |-> link, reqh |-> headers,
          tunt |-> tunnelType]
    ELSE LET linkBlob == LinkBlob(link, headers, order)
         IN  [form |-> "jwt", key |-> password, iss |-> "stremthru", sub |-> user,
              exp |-> IF expiresIn # 0 THEN tnow + expiresIn ELSE 0,
              enc_link |-> IF shouldEncrypt
                           THEN [cipher |-> TRUE, key |-> password, text |-> linkBlob]
                           ELSE [cipher |-> FALSE, key |-> <<>>, text |-> linkBlob],
              enc_format |-> IF shouldEncrypt THEN EncryptionFormat ELSE "base64",
              tunt |-> tunnelType]

Failed(status) ==
    [status |-> status, user |-> <<>>, link |-> <<>>, headers |-> NoHeaders, tunt |-> ""]

\* The link blob of a JWT token, once decoded or decrypted, cut into the record.
FromLinkBlob(user, linkBlob, tunt) ==
    LET c == Cut(linkBlob, <<"\n">>)
    IN  [status |-> "ok", user |-> user, link |-> c.before,
         headers |-> IF c.found THEN ParseHeaders(c.after, NoHeaders) ELSE NoHeaders,
         tunt |-> tunt]

\* if claims.Data.EncFormat == "base64" { Base64Decode } else { core.Decrypt }
LinkBlobOf(token, password) ==
    IF token.enc_format = "base64"
    THEN [ok |-> ~token.enc_link.cipher, text |-> token.enc_link.text]
    ELSE [ok |-> token.enc_link.cipher /\ token.enc_link.key = password,
          text |-> token.enc_link.text]

\* jwt: the token is valid while now is before exp
Expired(t, exp) == exp # 0 /\ t >= exp

\* UnwrapProxyLinkToken past the cache: the base64. form and the JWT form.
Decode(token) ==
    IF token.form = "base64."
    THEN LET c == Cut(token.u, <<":">>)
         IN  IF c.after # GetPassword(c.before) THEN Failed("401")
             ELSE [status |-> "ok", user |-> c.before, link |-> token.v,
                   headers |-> token.reqh, tunt |-> token.tunt]
    ELSE LET password == GetPassword(token.sub)
         IN  IF token.key # password THEN Failed("error")
             ELSE IF Expired(tnow, token.exp) THEN Failed("401")
             ELSE LET blob == LinkBlobOf(token, password)
                  IN  IF ~blob.ok THEN Failed("error")
                      ELSE FromLinkBlob(token.sub, blob.text, token.tunt)

\* proxyLinkTokenCache.Get
CacheLiveForever(t, addedAt) == TRUE
CacheLive(t, addedAt) == t < addedAt + proxyLinkTokenLifetime

CacheHit(token) ==
    /\ tcache # <<>>
    /\ tcache[1].key = token
    /\ CacheLive(tnow, tcache[1].addedAt)

TokenInit ==
    /\ PacedIdle
    /\ RestIdle
    /\ SessIdle
    /\ SafeIdle
    /\ StoreIdle
    /\ tok = <<>>
    /\ tpassword \in Passwords
    /\ tnow = 0
    /\ tcache = <<>>
    /\ tres = <<>>

CreateProxyLink ==
    /\ tok = <<>>
    /\ \E link \in Links, headers \in HeaderMaps, tunnelType \in TunnelTypes,
          expiresIn \in {0, playbackExpiresIn}, shouldEncrypt \in BOOLEAN :
         \E order \in Orders(headers) :
            tok' = [made |-> "CreateProxyLink",
                    args |-> [user |-> TheUser, password |-> tpassword, link |-> link,
                              headers |-> headers, tunt |-> tunnelType],
                    token |-> EncodedToken(link, headers, order, tunnelType, expiresIn,
                                           TheUser, tpassword, shouldEncrypt),
                    decoded |-> <<>>, decodedAt |-> 0]
    /\ UNCHANGED <<tpassword, tnow, tcache, tres>>
    /\ UNCHANGED <<pacedVars, sessVars, safeVars, storeVars, restVars>>

\* A JWT signed with the user's password by someone else than CreateProxyLink,
\* with an enc_format CreateProxyLink never writes.
CraftToken ==
    /\ tok = <<>>
    /\ \E link \in Links, format \in UnknownFormats, cipher \in BOOLEAN :
         tok' = [made |-> "crafted",
                 args |-> [user |-> TheUser, password |-> tpassword, link |-> link,
                           headers |-> NoHeaders, tunt |-> ""],
                 token |-> [form |-> "jwt", key |-> tpassword, iss |-> "stremthru",
                            sub |-> TheUser, exp |-> 0,
                            enc_link |-> [cipher |-> cipher,
                                          key |-> IF cipher THEN tpassword ELSE <<>>,
                                          text |-> link],
                            enc_format |-> format, tunt |-> ""],
                 decoded |-> <<>>, decodedAt |-> 0]
    /\ UNCHANGED <<tpassword, tnow, tcache, tres>>
    /\ UNCHANGED <<pacedVars, sessVars, safeVars, storeVars, restVars>>

UnwrapProxyLinkToken ==
    /\ tok # <<>>
    /\ IF CacheHit(tok.token)
       THEN /\ tres' = [tcache[1].value EXCEPT !.fromCache = TRUE, !.at = tnow,
                                               !.password = tpassword]
            /\ UNCHANGED <<tok, tcache>>
       ELSE LET d == Decode(tok.token)
                res == [status |-> d.status, user |-> d.user, link |-> d.link,
                        headers |-> d.headers, tunt |-> d.tunt,
                        fromCache |-> FALSE, at |-> tnow, password |-> tpassword]
            IN  /\ tres' = res
                /\ IF d.status = "ok"
                   THEN /\ tcache' = <<[key |-> tok.token, value |-> res, addedAt |-> tnow]>>
                        /\ tok' = [tok EXCEPT !.decoded = d, !.decodedAt = tnow]
                   ELSE UNCHANGED <<tok, tcache>>
    /\ UNCHANGED <<tpassword, tnow>>
    /\ UNCHANGED <<pacedVars, sessVars, safeVars, storeVars, restVars>>

\* The operator gives the user another password.
ChangePassword ==
    /\ tok # <<>>
    /\ \E p \in Passwords \ {tpassword} : tpassword' = p
    /\ UNCHANGED <<tok, tnow, tcache, tres>>
    /\ UNCHANGED <<pacedVars, sessVars, safeVars, storeVars, restVars>>

TokTick ==
    /\ tok # <<>>
    /\ \E t \in Instants : t > tnow /\ tnow' = t
    /\ UNCHANGED <<tok, tpassword, tcache, tres>>
    /\ UNCHANGED <<pacedVars, sessVars, safeVars, storeVars, restVars>>

TokenNext ==
    \/ CreateProxyLink
    \/ CraftToken
    \/ UnwrapProxyLinkToken
    \/ ChangePassword
    \/ TokTick

TokenSpec == TokenInit /\ [][TokenNext]_vars

(***************************************************************************)
(* Properties of the proxy-link tokens (under TokenSpec).                  *)
(***************************************************************************)
\* C12: a call of UnwrapProxyLinkToken made while the server-side password of
\* the user differs from the one the token was created with fails with 401.
C12_401UnderChangedPassword ==
    (tres # <<>> /\ tres.password # tok.args.password) => tres.status = "401"

\* C13: a call of UnwrapProxyLinkToken made after the exp of the token never
\* accepts it, and answers 401 when the password is still the one that signed it.
C13_NeverAcceptedAfterExp ==
    (tres # <<>> /\ tok.token.form = "jwt" /\ tok.token.exp # 0
     /\ tres.at > tok.token.exp) =>
        /\ tres.status # "ok"
        /\ tres.password = tok.args.password => tres.status = "401"

\* C14: under the password the token was created with and before its exp, the
\* token of CreateProxyLink, in each of its three forms, unwraps to the user,
\* link, headers and tunnel type it was created from.
C14_TokenRoundTrip ==
    (/\ tres # <<>>
     /\ tok.made = "CreateProxyLink"
     /\ tres.password = tok.args.password
     /\ (tok.token.form = "jwt" => ~Expired(tres.at, tok.token.exp))) =>
        /\ tres.status = "ok"
        /\ tres.user = tok.args.user
        /\ tres.link = tok.args.link
        /\ tres.headers = tok.args.headers
        /\ tres.tunt = tok.args.tunt

C14_Witness ==
    /\ tres # <<>>
    /\ tres.status = "ok"
    /\ ~tres.fromCache
    /\ tok.made = "CreateProxyLink"
    /\ tok.token.form = "jwt"
    /\ tok.token.enc_format = EncryptionFormat
    /\ tok.token.exp # 0
    /\ Cardinality(DOMAIN tres.headers) = 2
    /\ tres.link = <<"h", "?", "a", ":", " ", "b">>
    /\ tres.password = <<"p", ":", "q">>

\* C15: a call made less than 30 minutes after the token was decoded is answered
\* from the cache with a record equal to the decoded one, whatever the password
\* and the exp are by then; a call is answered from the cache only then.
C15_CachedFor30Minutes ==
    (tres # <<>> /\ tok.decoded # <<>>) =>
        LET age == tres.at - tok.decodedAt
            same == /\ tres.status = "ok"
                    /\ tres.user = tok.decoded.user
                    /\ tres.link = tok.decoded.link
                    /\ tres.headers = tok.decoded.headers
                    /\ tres.tunt = tok.decoded.tunt
        IN  /\ (age > 0 /\ age < 30) => (tres.fromCache /\ same)
            /\ tres.fromCache => (age < 30 /\ same)
            /\ age > 30 => ~tres.fromCache

C15_Witness ==
    /\ tres # <<>>
    /\ tres.fromCache
    /\ tres.at - tok.decodedAt = 29
    /\ tnow = 31
    /\ Cardinality(DOMAIN tres.headers) = 2

\* C16: a JWT token whose enc_format is neither "base64" nor the AES format is
\* never decoded.
C16_UnknownEncFormatRejected ==
    (/\ tres # <<>>
     /\ tok.token.form = "jwt"
     /\ tok.token.enc_format \notin {"base64", EncryptionFormat}) =>
        tres.status # "ok"

(***************************************************************************)
(* Locked links of the qBittorrent store (store/qbittorrent/store.go):     *)
(* stremthru://store/qbittorrent/ + base64(hash + ":" + index).            *)
(* Base64 is the standard alphabet with padding, computed on the ASCII     *)
(* codes of the characters.                                                *)
(***************************************************************************)
\* The printable ASCII characters, from code 32 on (the grave accent by name).
AsciiChars ==
    <<
      " ", "!", "\"", "#", "$", "%", "&", "'", "(", ")", "*", "+",
      ",", "-", ".", "/", "0", "1", "2", "3", "4", "5", "6", "7",
      "8", "9", ":", ";", "<", "=", ">", "?", "@", "A", "B", "C",
      "D", "E", "F", "G", "H", "I", "J", "K", "L", "M", "N", "O",
      "P", "Q", "R", "S", "T", "U", "V", "W", "X", "Y", "Z", "[",
      "\\", "]", "^", "_", "grave", "a", "b", "c", "d", "e", "f", "g",
      "h", "i", "j", "k", "l", "m", "n", "o", "p", "q", "r", "s",
      "t", "u", "v", "w", "x", "y", "z", "{", "|", "}", "~"
    >>

Base64Chars ==
    <<
      "A", "B", "C", "D", "E", "F", "G", "H", "I", "J", "K", "L", "M",
      "N", "O", "P", "Q", "R", "S", "T", "U", "V", "W", "X", "Y", "Z",
      "a", "b", "c", "d", "e", "f", "g", "h", "i", "j", "k", "l", "m",
      "n", "o", "p", "q", "r", "s", "t", "u", "v", "w", "x", "y", "z",
      "0", "1", "2", "3", "4", "5", "6", "7", "8", "9", "+", "/"
    >>

Ord(c) == (CHOOSE i \in 1..Len(AsciiChars) : AsciiChars[i] = c) + 31
Chr(n) == IF n >= 32 /\ n <= 126 THEN AsciiChars[n - 31] ELSE "?"

B64Char(v) == Base64Chars[v + 1]
IsB64Char(c) == \E i \in 1..64 : Base64Chars[i] = c
B64Val(c) == (CHOOSE i \in 1..64 : Base64Chars[i] = c) - 1

\* core.Base64Encode
RECURSIVE Base64Encode(_)
Base64Encode(s) ==
    IF s = <<>> THEN <<>>
    ELSE IF Len(s) = 1
    THEN LET n == Ord(s[1]) * 16
         IN  <<B64Char(n \div 64), B64Char(n % 64), "=", "=">>
    ELSE IF Len(s) = 2
    THEN LET n == (Ord(s[1]) * 256 + Ord(s[2])) * 4
         IN  <<B64Char(n \div 4096), B64Char((n \div 64) % 64), B64Char(n % 64), "=">>
    ELSE LET n == Ord(s[1]) * 65536 + Ord(s[2]) * 256 + Ord(s[3])
         IN  <<B64Char(n \div 262144), B64Char((n \div 4096) % 64),
               B64Char((n \div 64) % 64), B64Char(n % 64)>>
             \o Base64Encode(SubSeq(s, 4, Len(s)))

\* One group of four characters, the last group possibly padded.
Base64Quad(g, last) ==
    IF \A i \in 1..4 : IsB64Char(g[i])
    THEN LET n == B64Val(g[1]) * 262144 + B64Val(g[2]) * 4096
                  + B64Val(g[3]) * 64 + B64Val(g[4])
         IN  [ok |-> TRUE,
              text |-> <<Chr(n \div 65536), Chr((n \div 256) % 256), Chr(n % 256)>>]
    ELSE IF last /\ IsB64Char(g[1]) /\ IsB64Char(g[2]) /\ IsB64Char(g[3]) /\ g[4] = "="
    THEN LET n == B64Val(g[1]) * 4096 + B64Val(g[2]) * 64 + B64Val(g[3])
         IN  [ok |-> TRUE, text |-> <<Chr(n \div 1024), Chr((n \div 4) % 256)>>]
    ELSE IF last /\ IsB64Char(g[1]) /\ IsB64Char(g[2]) /\ g[3] = "=" /\ g[4] = "="
    THEN [ok |-> TRUE, text |-> <<Chr((B64Val(g[1]) * 64 + B64Val(g[2])) \div 16)>>]
    ELSE [ok |-> FALSE, text |-> <<>>]

\* core.Base64Decode
RECURSIVE Base64Decode(_)
Base64Decode(s) ==
    IF s = <<>> THEN [ok |-> TRUE, text |-> <<>>]
    ELSE IF Len(s) < 4 THEN [ok |-> FALSE, text |-> <<>>]
    ELSE LET q == Base64Quad(SubSeq(s, 1, 4), Len(s) = 4)
             rest == Base64Decode(SubSeq(s, 5, Len(s)))
         IN  IF q.ok /\ rest.ok THEN [ok |-> TRUE, text |-> q.text \o rest.text]
             ELSE [ok |-> FALSE, text |-> <<>>]

lockedFileLinkPrefix ==
    <<"s", "t", "r", "e", "m", "t", "h", "r", "u", ":", "/", "/", "s", "t", "o", "r", "e",
      "/", "q", "b", "i", "t", "t", "o", "r", "r", "e", "n", "t", "/">>

encodeData(hash, fileIndex) ==
    Base64Encode(hash \o <<":">> \o FormatInt(fileIndex))

decodeDataIndexOptional(encoded) ==
    LET decoded == Base64Decode(encoded)
        c == Cut(decoded.text, <<":">>)
        idx == ParseInt(c.after)
    IN  IF ~decoded.ok THEN [ok |-> FALSE, hash |-> <<>>, fileIndex |-> 0]
        ELSE [ok |-> TRUE, hash |-> c.before,
              fileIndex |-> IF idx.ok THEN idx.v ELSE 0]

decodeData(encoded) ==
    LET fail == [ok |-> FALSE, hash |-> <<>>, fileIndex |-> 0]
        decoded == Base64Decode(encoded)
    IN  IF ~decoded.ok THEN fail
        ELSE LET c == Cut(decoded.text, <<":">>)
             IN  IF ~c.found THEN fail
                 ELSE LET idx == ParseInt(c.after)
                      IN  IF ~idx.ok THEN fail
                          ELSE [ok |-> TRUE, hash |-> c.before, fileIndex |-> idx.v]

CreateWithoutSeparator(hash, fileIndex) ==
    lockedFileLinkPrefix \o Base64Encode(hash \o FormatInt(fileIndex))
create(hash, fileIndex) ==
    lockedFileLinkPrefix \o encodeData(hash, fileIndex)

parse(link) ==
    decodeData(TrimPrefix(link, lockedFileLinkPrefix))

(***************************************************************************)
(* GenerateLink and AddMagnet of the qBittorrent store, applied to         *)
(* arguments and backend answers drawn from bounded sets. The API key is   *)
(* a valid one.                                                            *)
(***************************************************************************)
HashLen == 40
HexChars == <<"0", "1", "2", "3", "4", "5", "6", "7", "8", "9",
              "a", "b", "c", "d", "e", "f">>
\* 40-hex hashes: every pair of the characters 0, 9, a, f after a fixed head
Hashes ==
    {[i \in 1..HashLen |->
         IF i = HashLen - 1 THEN a
         ELSE IF i = HashLen THEN b
         ELSE HexChars[(i % 16) + 1]] : a, b \in {"0", "9", "a", "f"}}
Indices == {0, 1, 9, 10, 999, 65536, 2147483647}

File(index, name) == [Index |-> index, Name |-> name]
FileLists ==
    {<<>>,
     <<File(0, "a"), File(1, "b"), File(2, "c")>>,
     <<File(2, "c"), File(0, "a")>>,
     <<File(9, "x"), File(1, "b")>>,
     <<File(1, "b"), File(1, "d"), File(10, "e")>>}

\* Links that create does not make: the payload after the prefix.
Malformed ==
    {<<"n", "o", "t", "-", "v", "a", "l", "i", "d", "-", "b", "a", "s", "e", "6", "4",
       "!", "!", "!">>,
     <<"Y", "W", "I">>,
     Base64Encode(<<"a", "b">>),
     Base64Encode(<<"a", "b", ":">>),
     Base64Encode(<<"a", "b", ":", "x">>),
     Base64Encode(<<"a", "b", ":", "1", ".", "5">>),
     Base64Encode(<<"a", "b", ":", "1", ":", "2">>)}

\* for i := range files { if files[i].Index == fileIndex { ... break } }
FindFileAtPosition(files, fileIndex) ==
    IF fileIndex >= 0 /\ fileIndex < Len(files) THEN fileIndex + 1 ELSE 0
FindFile(files, fileIndex) ==
    IF \E i \in 1..Len(files) : files[i].Index = fileIndex
    THEN CHOOSE i \in 1..Len(files) :
            /\ files[i].Index = fileIndex
            /\ \A j \in 1..(i - 1) : files[j].Index # fileIndex
    ELSE 0

NoFile == File(-1, "")

\* GenerateLink up to the file it selects.
GenerateLinkOf(link, files, filesErr) ==
    LET p == parse(link)
    IN  IF ~p.ok
        THEN [status |-> 400, message |-> "invalid link", file |-> NoFile]
        ELSE IF filesErr
        THEN [status |-> 0, message |-> "upstream error", file |-> NoFile]
        ELSE LET i == FindFile(files, p.fileIndex)
             IN  IF i = 0
                 THEN [status |-> 400, message |-> "file index out of range",
                       file |-> NoFile]
                 ELSE [status |-> 200, message |-> "", file |-> files[i]]

\* AddMagnet up to the add request. magnet and torrent are "none", "valid" or
\* "invalid" (a magnet link or a torrent file that does not parse).
AddMagnetOf(magnet, torrent, backendErr) ==
    IF magnet # "none"
    THEN IF magnet = "invalid"
         THEN [status |-> "invalid magnet", requests |-> <<>>]
         ELSE [status |-> IF backendErr THEN "upstream error" ELSE "ok",
               requests |-> <<"AddTorrentMagnet">>]
    ELSE IF torrent # "none"
    THEN IF torrent = "invalid"
         THEN [status |-> "invalid torrent", requests |-> <<>>]
         ELSE [status |-> IF backendErr THEN "upstream error" ELSE "ok",
               requests |-> <<"AddTorrentFile">>]
    ELSE [status |-> "error: either magnet or torrent must be provided",
          requests |-> <<>>]

LinkInit ==
    /\ PacedIdle
    /\ RestIdle
    /\ SessIdle
    /\ TokIdle
    /\ StoreIdle
    /\ \/ \E hash \in Hashes, idx \in Indices, files \in FileLists, filesErr \in BOOLEAN :
            sb = [op |-> "link", made |-> "create", hash |-> hash, idx |-> idx,
                  link |-> <<>>, files |-> files, filesErr |-> filesErr,
                  parsed |-> <<>>, out |-> <<>>]
       \/ \E payload \in Malformed, withPrefix \in BOOLEAN,
             files \in FileLists, filesErr \in BOOLEAN :
            sb = [op |-> "link", made |-> "malformed", hash |-> <<>>, idx |-> -1,
                  link |-> IF withPrefix THEN lockedFileLinkPrefix \o payload
                           ELSE payload,
                  files |-> files, filesErr |-> filesErr,
                  parsed |-> <<>>, out |-> <<>>]
       \/ \E magnet \in {"none", "valid", "invalid"},
             torrent \in {"none", "valid", "invalid"}, backendErr \in BOOLEAN :
            sb = [op |-> "add", magnet |-> magnet, torrent |-> torrent,
                  backendErr |-> backendErr, out |-> <<>>]

CreateLink ==
    /\ sb.op = "link"
    /\ sb.link = <<>>
    /\ sb' = [sb EXCEPT !.link = create(sb.hash, sb.idx)]
    /\ UNCHANGED <<pacedVars, sessVars, tokVars, storeVars, restVars>>

ParseLockedFileLink ==
    /\ sb.op = "link"
    /\ sb.link # <<>>
    /\ sb.parsed = <<>>
    /\ sb' = [sb EXCEPT !.parsed = parse(sb.link)]
    /\ UNCHANGED <<pacedVars, sessVars, tokVars, storeVars, restVars>>

GenerateLink ==
    /\ sb.op = "link"
    /\ sb.link # <<>>
    /\ sb.out = <<>>
    /\ sb' = [sb EXCEPT !.out = GenerateLinkOf(sb.link, sb.files, sb.filesErr)]
    /\ UNCHANGED <<pacedVars, sessVars, tokVars, storeVars, restVars>>

AddMagnet ==
    /\ sb.op = "add"
    /\ sb.out = <<>>
    /\ sb' = [sb EXCEPT !.out = AddMagnetOf(sb.magnet, sb.torrent, sb.backendErr)]
    /\ UNCHANGED <<pacedVars, sessVars, tokVars, storeVars, restVars>>

LinkNext ==
    \/ CreateLink
    \/ ParseLockedFileLink
    \/ GenerateLink
    \/ AddMagnet

LinkSpec == LinkInit /\ [][LinkNext]_vars

(***************************************************************************)
(* Properties of the qBittorrent store adapter (under LinkSpec).           *)
(***************************************************************************)
\* C17: the link made by create from a 40-hex hash and a non-negative index
\* begins with stremthru://store/qbittorrent/ and parses back to that hash and
\* that index.
C17_LockedLinkRoundTrip ==
    (sb # <<>> /\ sb.op = "link" /\ sb.made = "create" /\ sb.link # <<>>) =>
        /\ HasPrefix(sb.link, lockedFileLinkPrefix)
        /\ sb.parsed # <<>> =>
              /\ sb.parsed.ok
              /\ sb.parsed.hash = sb.hash
              /\ sb.parsed.fileIndex = sb.idx

C17_Witness ==
    /\ sb # <<>>
    /\ sb.op = "link"
    /\ sb.made = "create"
    /\ sb.parsed # <<>>
    /\ sb.parsed.ok
    /\ sb.parsed.fileIndex = 2147483647
    /\ Len(sb.parsed.hash) = 40

\* C18: a link whose payload is not base64, has no ":" or has an index that is
\* not an integer does not parse, and GenerateLink answers it with 400.
C18_MalformedLinkIsBadRequest ==
    (sb # <<>> /\ sb.op = "link" /\ sb.made = "malformed") =>
        /\ sb.parsed # <<>> => ~sb.parsed.ok
        /\ sb.out # <<>> => (sb.out.status = 400 /\ sb.out.message = "invalid link")

C18_Witness ==
    /\ sb # <<>>
    /\ sb.op = "link"
    /\ sb.made = "malformed"
    /\ sb.link = lockedFileLinkPrefix \o Base64Encode(<<"a", "b", ":", "x">>)
    /\ sb.files # <<>>
    /\ sb.parsed # <<>>
    /\ sb.out # <<>>
    /\ sb.out.status = 400

\* C19: when the file list arrives, GenerateLink takes the first file whose
\* Index is the index of the link, wherever it stands in the list, and answers
\* 400 "file index out of range" when no file has that Index.
C19_FileSelectedByIndex ==
    (sb # <<>> /\ sb.op = "link" /\ sb.made = "create" /\ sb.out # <<>>
     /\ ~sb.filesErr) =>
        LET matching == {i \in 1..Len(sb.files) : sb.files[i].Index = sb.idx}
        IN  /\ matching = {} =>
                  /\ sb.out.status = 400
                  /\ sb.out.message = "file index out of range"
            /\ matching # {} =>
                  /\ sb.out.status = 200
                  /\ sb.out.file.Index = sb.idx
                  /\ \E i \in matching :
                        /\ sb.out.file = sb.files[i]
                        /\ \A j \in matching : i <= j

C19_Witness ==
    /\ sb # <<>>
    /\ sb.op = "link"
    /\ sb.made = "create"
    /\ sb.out # <<>>
    /\ sb.out.status = 200
    /\ sb.idx < Len(sb.files)
    /\ sb.files[sb.idx + 1].Index # sb.idx

\* C20: AddMagnet given both a magnet and a torrent file, or neither, fails with
\* bad_request and sends no add request to the backend.
C20_ExactlyOneOfMagnetOrTorrent ==
    (/\ sb # <<>>
     /\ sb.op = "add"
     /\ sb.out # <<>>
     /\ (sb.magnet = "none") = (sb.torrent = "none")) =>
        /\ sb.out.status = "bad_request"
        /\ sb.out.requests = <<>>

(***************************************************************************)
(* AddMagnet and GetMagnet of one magnet against a qBittorrent backend     *)
(* (store/qbittorrent/store.go, torrent.go).  Every call here names the    *)
(* same magnet; progress is a float64 in the source and is counted here    *)
(* in thousandths.                                                          *)
(***************************************************************************)
MaxCalls == 2
ProgressOne == 1000
PollAttempts == 5
PollSleep == 500
StatusConflict == 409

MagnetStatusQueued == "queued"
MagnetStatusDownloading == "downloading"
MagnetStatusDownloaded == "downloaded"

progressToStatusAboveOne(progress) ==
    IF progress > ProgressOne THEN MagnetStatusDownloaded
    ELSE IF progress > 0 THEN MagnetStatusDownloading
    ELSE MagnetStatusQueued
progressToStatus(progress) ==
    IF progress >= ProgressOne THEN MagnetStatusDownloaded
    ELSE IF progress > 0 THEN MagnetStatusDownloading
    ELSE MagnetStatusQueued

\* The magnet of every call: magnet.Hash as ParseMagnetLink gives it.
MagnetHash == <<"c", "0", "f", "f", "e", "e">>

\* The files of the torrent once its metadata is known.
FinalFiles == <<File(0, "a"), File(1, "b")>>

\* How far the backend has come with the torrent: accepted is an add request
\* answered but the torrent not yet listed; meta is the metadata fetched.
BackendStates ==
    {[accepted |-> FALSE, present |-> FALSE, meta |-> FALSE, progress |-> 0],
     [accepted |-> TRUE, present |-> FALSE, meta |-> FALSE, progress |-> 0],
     [accepted |-> TRUE, present |-> TRUE, meta |-> FALSE, progress |-> 0],
     [accepted |-> TRUE, present |-> TRUE, meta |-> TRUE, progress |-> 0],
     [accepted |-> TRUE, present |-> TRUE, meta |-> TRUE, progress |-> 500],
     [accepted |-> TRUE, present |-> TRUE, meta |-> TRUE, progress |-> ProgressOne]}

\* What POST /api/v2/torrents/add answers for a torrent the backend already
\* holds: a 200 whose body says so, or a 409.
DuplicateSignals ==
    {[status |-> StatusOK, body |-> "Fails."],
     [status |-> StatusConflict, body |-> "Conflict"]}

AddResponses(b) ==
    IF b.accepted THEN DuplicateSignals
    ELSE {[status |-> StatusOK, body |-> "Ok."]}

TransportError == [status |-> 0, body |-> "transport error"]

\* AddTorrentMagnet: nil exactly for a response of status 200; the body is
\* not looked at.
AddTorrentMagnetErr(resp) == resp.status # StatusOK

\* GET /api/v2/torrents/info?hashes=...: the torrents listed, as progresses.
TorrentsInfo(b) == IF b.present THEN <<b.progress>> ELSE <<>>

\* GET /api/v2/torrents/files
TorrentFiles(b) == IF b.meta THEN FinalFiles ELSE <<>>

\* The condition under which the polling loop of AddMagnet runs once more.
PollAgainAfterFound(i, found) == i < PollAttempts
PollAgain(i, found) == i < PollAttempts /\ ~found

NoCall == <<>>

MagnetResult(op, err, status, files, resp, c) ==
    [op |-> op, err |-> err, status |-> status,
     id |-> IF err = "" THEN MagnetHash ELSE <<>>,
     hash |-> IF err = "" THEN MagnetHash ELSE <<>>,
     files |-> files, addResp |-> resp,
     polls |-> IF c = NoCall THEN <<>> ELSE c.polls,
     firstFound |-> IF c = NoCall THEN 0 ELSE c.firstFound,
     progress |-> IF c = NoCall THEN -1 ELSE c.progress]

MagnetInit ==
    /\ PacedIdle
    /\ RestIdle
    /\ SessIdle
    /\ SafeIdle
    /\ TokIdle
    /\ backend \in BackendStates
    /\ call = NoCall
    /\ results = <<>>

\* AddMagnet up to the answer of the add request (store.go 253-262).
AddTorrentMagnet ==
    /\ call = NoCall
    /\ Len(results) < MaxCalls
    /\ \E resp \in AddResponses(backend) \cup {TransportError} :
          IF resp = TransportError \/ AddTorrentMagnetErr(resp)
          THEN /\ results' = Append(results,
                    MagnetResult("add", "upstream error", "", <<>>, resp, NoCall))
               /\ UNCHANGED <<backend, call>>
          ELSE /\ call' = [i |-> 0, elapsed |-> 0, polls |-> <<>>, found |-> FALSE,
                           firstFound |-> 0, progress |-> -1, addResp |-> resp]
               /\ backend' = [backend EXCEPT !.accepted = TRUE]
               /\ UNCHANGED results
    /\ UNCHANGED <<pacedVars, sessVars, safeVars, tokVars, restVars>>

\* One turn of the polling loop (store.go 283-290): the sleep, then GetTorrents.
PollTorrent ==
    /\ call # NoCall
    /\ PollAgain(call.i, call.found)
    /\ \E failed \in BOOLEAN :
          LET at == call.elapsed + PollSleep
              torrents == TorrentsInfo(backend)
              got == ~failed /\ Len(torrents) > 0
          IN  call' = [call EXCEPT
                         !.i = @ + 1,
                         !.elapsed = at,
                         !.polls = Append(@, at),
                         !.found = got,
                         !.firstFound = IF got /\ @ = 0 THEN call.i + 1 ELSE @,
                         !.progress = IF got THEN torrents[1] ELSE @]
    /\ UNCHANGED <<backend, results>>
    /\ UNCHANGED <<pacedVars, sessVars, safeVars, tokVars, restVars>>

\* The rest of AddMagnet once the loop is left (store.go 292-324).
FinishAddMagnet ==
    /\ call # NoCall
    /\ ~PollAgain(call.i, call.found)
    /\ \E filesErr \in BOOLEAN :
          LET status == IF call.found THEN progressToStatus(call.progress)
                        ELSE MagnetStatusQueued
              files == IF call.found /\ ~filesErr THEN TorrentFiles(backend)
                       ELSE <<>>
          IN  results' = Append(results,
                  MagnetResult("add", "", status, files, call.addResp, call))
    /\ call' = NoCall
    /\ UNCHANGED backend
    /\ UNCHANGED <<pacedVars, sessVars, safeVars, tokVars, restVars>>

\* GetMagnet (store.go 471-499).
GetMagnet ==
    /\ call = NoCall
    /\ Len(results) < MaxCalls
    /\ \E torrentsErr \in BOOLEAN, filesErr \in BOOLEAN :
          LET torrents == TorrentsInfo(backend)
          IN  results' = Append(results,
                  IF torrentsErr
                  THEN MagnetResult("get", "upstream error", "", <<>>, <<>>, NoCall)
                  ELSE IF Len(torrents) = 0
                  THEN MagnetResult("get", "torrent not found", "", <<>>, <<>>, NoCall)
                  ELSE IF filesErr
                  THEN MagnetResult("get", "upstream error", "", <<>>, <<>>, NoCall)
                  ELSE MagnetResult("get", "", progressToStatus(torrents[1]),
                                    TorrentFiles(backend), <<>>, NoCall))
    /\ UNCHANGED <<backend, call>>
    /\ UNCHANGED <<pacedVars, sessVars, safeVars, tokVars, restVars>>

\* The backend lists an accepted torrent, fetches its metadata and downloads.
BackendAdvances ==
    /\ backend.accepted
    /\ backend.progress < ProgressOne
    /\ backend' = IF ~backend.present THEN [backend EXCEPT !.present = TRUE]
                  ELSE IF ~backend.meta THEN [backend EXCEPT !.meta = TRUE]
                  ELSE [backend EXCEPT !.progress = @ + 500]
    /\ UNCHANGED <<call, results>>
    /\ UNCHANGED <<pacedVars, sessVars, safeVars, tokVars, restVars>>

MagnetNext ==
    \/ AddTorrentMagnet
    \/ PollTorrent
    \/ FinishAddMagnet
    \/ GetMagnet
    \/ BackendAdvances

MagnetSpec == MagnetInit /\ [][MagnetNext]_vars

\* The polling loop and the rest of AddMagnet are not held up for ever: the
\* sleep ends and each request is answered or fails.
MagnetFairSpec ==
    /\ MagnetSpec
    /\ WF_vars(PollTorrent)
    /\ WF_vars(FinishAddMagnet)

(***************************************************************************)
(* Properties of AddMagnet and GetMagnet (under MagnetSpec).               *)
(***************************************************************************)
\* C21: when AddMagnet is called twice with the same magnet and the backend
\* answers the second add request with a duplicate signal, the second call
\* also succeeds and returns the hash and the id that the first returned.
C21_AddMagnetTwiceIdempotent ==
    \A i \in 1..Len(results) : \A j \in 1..Len(results) :
        (/\ i < j
         /\ results[i].op = "add"
         /\ results[j].op = "add"
         /\ results[i].err = ""
         /\ results[j].addResp \in DuplicateSignals) =>
            /\ results[j].err = ""
            /\ results[j].hash = results[i].hash
            /\ results[j].id = results[i].id

\* C22: every magnet that AddMagnet or GetMagnet returns with status
\* downloaded carries the complete file list of the torrent.
C22_DownloadedHasAllFiles ==
    \A k \in 1..Len(results) :
        (results[k].err = "" /\ results[k].status = "downloaded") =>
            results[k].files = FinalFiles

\* The polls of an AddMagnet call, while it runs and in what it returned.
C23_PollsBounded ==
    /\ call # NoCall =>
          /\ call.i = Len(call.polls)
          /\ call.i <= 5
          /\ \A k \in 1..Len(call.polls) : call.polls[k] = 500 * k
    /\ \A n \in 1..Len(results) :
          LET r == results[n]
          IN  (r.op = "add" /\ r.addResp # TransportError /\ r.addResp.status = 200) =>
                  /\ r.err = ""
                  /\ Len(r.polls) \in 1..5
                  /\ \A k \in 1..Len(r.polls) : r.polls[k] = 500 * k
                  /\ r.firstFound = 0 =>
                        /\ Len(r.polls) = 5
                        /\ r.status = "queued"
                        /\ r.files = <<>>
                  /\ r.firstFound # 0 =>
                        /\ Len(r.polls) = r.firstFound
                        /\ r.progress >= 1000 => r.status = "downloaded"
                        /\ (r.progress > 0 /\ r.progress < 1000) =>
                              r.status = "downloading"
                        /\ r.progress <= 0 => r.status = "queued"

\* C23: after a successful add request AddMagnet polls at most 5 times, 500 ms
\* apart, stops at the first poll that returns the torrent and always returns:
\* with the status of the torrent's progress when a poll returned it, with
\* status queued and no files otherwise.
C23_PollsAtMostFiveTimes ==
    /\ []C23_PollsBounded
    /\ (call # NoCall) ~> (call = NoCall)

C23_Witness ==
    /\ Len(results) = 2
    /\ results[1].op = "add"
    /\ results[1].err = ""
    /\ results[1].firstFound = 0
    /\ Len(results[1].polls) = 5
    /\ results[1].status = "queued"
    /\ results[2].op = "add"
    /\ results[2].err = ""
    /\ results[2].firstFound = 3
    /\ results[2].polls = <<500, 1000, 1500>>
    /\ results[2].status = "downloading"
    /\ results[2].files = FinalFiles

(***************************************************************************)
(* The pure functions of the qBittorrent adapter, each applied to          *)
(* arguments drawn from bounded sets: parseToken and pathMapping.apply     *)
(* (client.go), buildFileURL, ListMagnets and progressToStatus (store.go). *)
(***************************************************************************)
\* strings.SplitN(s, sep, n) for a one-character separator and n >= 1
RECURSIVE SplitN(_, _, _)
SplitN(s, c, n) ==
    LET i == Index(s, c)
    IN  IF n <= 1 \/ i < 0 THEN <<s>>
        ELSE <<SubSeq(s, 1, i)>> \o SplitN(SubSeq(s, i + 2, Len(s)), c, n - 1)

\* strings.Split(s, sep) for a one-character separator
Split(s, c) == SplitN(s, c, Len(s) + 1)

\* strings.Join(parts, sep)
RECURSIVE Join(_, _)
Join(parts, c) ==
    IF parts = <<>> THEN <<>>
    ELSE IF Len(parts) = 1 THEN parts[1]
    ELSE parts[1] \o <<c>> \o Join(Tail(parts), c)

\* strings.TrimRight(s, cutset) for a cutset of one character
RECURSIVE TrimRight(_, _)
TrimRight(s, c) ==
    IF s # <<>> /\ s[Len(s)] = c THEN TrimRight(SubSeq(s, 1, Len(s) - 1), c)
    ELSE s

\* strings.TrimSpace, for the white space the inputs here hold
RECURSIVE TrimSpace(_)
TrimSpace(s) ==
    IF s # <<>> /\ s[1] = " " THEN TrimSpace(Tail(s))
    ELSE TrimRight(s, " ")

NoMapping == <<>>

TokenError(message) ==
    [ok |-> FALSE, err |-> message, URL |-> <<>>, Username |-> <<>>,
     Password |-> <<>>, FileBaseURL |-> <<>>, PathMapping |-> NoMapping]

TokenConfig(parts, mapping) ==
    [ok |-> TRUE, err |-> "", URL |-> TrimRight(parts[1], "/"),
     Username |-> parts[2], Password |-> parts[3],
     FileBaseURL |-> TrimRight(parts[4], "/"), PathMapping |-> mapping]

parseToken(token) ==
    LET parts == SplitN(token, "|", 5)
    IN  IF Len(parts) < 4
        THEN TokenError("expected 4 pipe-delimited parts")
        ELSE IF \E i \in 1..4 : TrimSpace(parts[i]) = <<>>
        THEN TokenError("part is empty")
        ELSE IF Len(parts) = 5 /\ parts[5] # <<>>
        THEN LET mapParts == SplitN(parts[5], ":", 2)
             IN  IF Len(mapParts) # 2
                 THEN TokenError("path_mapping must be 'from:to' format")
                 ELSE IF mapParts[1] = <<>>
                 THEN TokenError("path_mapping 'from' is empty")
                 ELSE TokenConfig(parts, [From |-> mapParts[1], To |-> mapParts[2]])
        ELSE TokenConfig(parts, NoMapping)

\* The tokens parseToken is applied to, as lists of the fields that "|" joins.
TokenFieldLists ==
    LET u == <<"h", ":", "8", "/">>
        a == <<"a">>
        pw == <<"p", ":", "w">>
        f == <<"f", "/">>
    IN  {<<>>,
         <<u, a, pw>>,
         <<u, a, pw, f>>,
         <<u, <<>>, pw, f>>,
         <<u, a, <<" ">>, f>>,
         <<u, a, pw, f, <<>>>>,
         <<u, a, pw, f, <<"/", "d", ":", "/", "m">>>>,
         <<u, a, pw, f, <<"/", "d", ":">>>>,
         <<u, a, pw, f, <<":", "/", "e">>>>,
         <<u, a, pw, f, <<"n", "o">>>>,
         <<u, a, pw, f, <<"/", "d", ":", "h", ":", "8">>>>,
         <<u, a, pw, f, <<"/", "d", ":", "/", "m">>, <<"x">>>>,
         <<u, a, pw, f, <<"n", "o">>, <<"x", ":", "y">>>>,
         <<u, a, pw, f, <<>>, <<>>>>}

Tokens == {Join(l, "|") : l \in TokenFieldLists}

\* pathMapping.apply
apply(pm, fullPath) ==
    LET trimmed == TrimRight(pm.From, "/")
    IN  IF HasPrefix(fullPath, trimmed \o <<"/">>)
        THEN TrimRight(pm.To, "/") \o TrimPrefix(fullPath, trimmed)
        ELSE IF fullPath = trimmed THEN pm.To
        ELSE fullPath

MappingFroms == {<<"/", "d">>, <<"/", "d", "/">>, <<"/", "d", "/", "c">>, <<"/">>}
MappingTos == {<<"/", "m">>, <<"/", "m", "/">>, <<>>, <<"/">>}
MappedPaths ==
    {<<"/", "d">>,
     <<"/", "d", "/">>,
     <<"/", "d", "/", "x", "/", "y">>,
     <<"/", "d", "-", "e", "/", "f">>,
     <<"/", "d", "/", "c">>,
     <<"/", "d", "/", "c", "/", "x">>,
     <<"/", "o", "/", "p">>,
     <<"x", "/", "y">>,
     <<>>}

\* Bytes above 127 are written by name.
HighBytes == <<"x80", "xE6", "xFF">>
HighByteCodes == <<128, 230, 255>>
ByteCode(c) ==
    IF \E i \in 1..Len(HighBytes) : HighBytes[i] = c
    THEN HighByteCodes[CHOOSE i \in 1..Len(HighBytes) : HighBytes[i] = c]
    ELSE Ord(c)

UpperHex == <<"0", "1", "2", "3", "4", "5", "6", "7", "8", "9",
              "A", "B", "C", "D", "E", "F">>

\* "%" and the two upper-case hex digits of the byte
PercentEncoded(c) ==
    <<"%", UpperHex[(ByteCode(c) \div 16) + 1], UpperHex[(ByteCode(c) % 16) + 1]>>

IsAlphaNum(c) ==
    /\ \E i \in 1..Len(AsciiChars) : AsciiChars[i] = c
    /\ \/ (Ord(c) >= 48 /\ Ord(c) <= 57)
       \/ (Ord(c) >= 65 /\ Ord(c) <= 90)
       \/ (Ord(c) >= 97 /\ Ord(c) <= 122)

IsUnreserved(c) == IsAlphaNum(c) \/ c \in {"-", "_", ".", "~"}

\* net/url shouldEscape(c, encodePathSegment): of the reserved characters
\* only "/", ";", "," and "?" are escaped in a path segment.
shouldEscape(c) ==
    IF IsUnreserved(c) THEN FALSE
    ELSE IF c \in {"$", "&", "+", ",", "/", ":", ";", "=", "?", "@"}
    THEN c \in {"/", ";", ",", "?"}
    ELSE TRUE

\* url.PathEscape
RECURSIVE PathEscape(_)
PathEscape(s) ==
    IF s = <<>> THEN <<>>
    ELSE (IF shouldEscape(s[1]) THEN PercentEncoded(s[1]) ELSE <<s[1]>>)
         \o PathEscape(Tail(s))

buildFileURL(fileBaseURL, fileName) ==
    LET parts == Split(fileName, "/")
        encodedParts == [i \in 1..Len(parts) |-> PathEscape(parts[i])]
    IN  fileBaseURL \o <<"/">> \o Join(encodedParts, "/")

FileBaseURL == <<"h", ":", "/", "/", "f", ":", "8", "/", "d">>

FileNameBytes ==
    {"a", "Z", "0", "-", "_", ".", "~", "/", " ", "#", "%", "(", ")", "[", "]",
     "$", "&", "+", ",", ":", ";", "=", "?", "@", "!", "*", "'", "xE6"}

FileNames ==
    {<<>>} \cup {<<c>> : c \in FileNameBytes}
           \cup {<<c, d>> : c \in FileNameBytes, d \in FileNameBytes}
           \cup {<<"S", " ", "1", "/", "E", " ", "(", "1", ")", ".", "m">>}

\* The torrents of the backend, in the order /api/v2/torrents/info lists them.
ListedProgress == <<0, 500, ProgressOne>>
Torrents(n) ==
    [k \in 1..n |-> [Hash |-> k, Progress |-> ListedProgress[(k % 3) + 1]]]

TorrentCounts == {0, 1, 3, 100, 101, 499, 500, 501, 600}
Limits == {0, 1, 2, 100, 499, 500}
Offsets == {0, 1, 2, 99, 100, 102, 499, 500, 501, 600, 601}

defaultLimit == 100

PageEndFromZero(startIdx, limit, totalItems) == Min(limit, totalItems)
PageEnd(startIdx, limit, totalItems) == Min(startIdx + limit, totalItems)

\* ListMagnets once GetTorrents has answered
ListMagnetsOf(torrents, Limit, Offset) ==
    LET totalItems == Len(torrents)
        limit == IF Limit <= 0 THEN defaultLimit ELSE Limit
        startIdx == Min(Offset, totalItems)
        endIdx == PageEnd(startIdx, limit, totalItems)
        page == SubSeq(torrents, startIdx + 1, endIdx)
    IN  [Items |-> [i \in 1..Len(page) |->
                       [Id |-> page[i].Hash,
                        Status |-> progressToStatus(page[i].Progress)]],
         TotalItems |-> totalItems]

Progresses == {-1000, -1, 0, 1, 500, 999, 1000, 1001, 1100, 2000}

\* What GET /api/v2/torrents/files can answer for a torrent of up to MaxFiles
\* files: every file once, in any order, each with its index and its size.
MaxFiles == 3
FileSizes == {1, 2}
Listings ==
    UNION {{[i \in 1..n |-> [Index |-> order[i], Size |-> sizes[order[i]]]] :
              order \in {f \in [1..n -> 0..(n - 1)] :
                            \A i, j \in 1..n : i # j => f[i] # f[j]},
              sizes \in [0..(n - 1) -> FileSizes]} : n \in 1..MaxFiles}

\* IsFileRangeAvailable: the loop that looks for the file and adds up
\* fileOffset
RECURSIVE FileOffsetLoop(_, _, _, _)
FileOffsetLoop(files, i, fileIndex, fileOffset) ==
    IF i > Len(files) THEN [found |-> FALSE, fileOffset |-> fileOffset]
    ELSE IF files[i].Index = fileIndex
    THEN [found |-> TRUE, fileOffset |-> fileOffset]
    ELSE FileOffsetLoop(files, i + 1, fileIndex, fileOffset + files[i].Size)

AdapterInit ==
    /\ PacedIdle
    /\ RestIdle
    /\ SessIdle
    /\ TokIdle
    /\ StoreIdle
    /\ \/ \E token \in Tokens :
            sb = [op |-> "token", token |-> token, done |-> FALSE, out |-> <<>>]
       \/ \E from \in MappingFroms, to \in MappingTos, path \in MappedPaths :
            sb = [op |-> "apply", From |-> from, To |-> to, path |-> path,
                  done |-> FALSE, out |-> <<>>]
       \/ \E name \in FileNames :
            sb = [op |-> "url", base |-> FileBaseURL, name |-> name,
                  done |-> FALSE, out |-> <<>>]
       \/ \E n \in TorrentCounts, limit \in Limits, offset \in Offsets :
            sb = [op |-> "list", total |-> n, limit |-> limit, offset |-> offset,
                  done |-> FALSE, out |-> <<>>]
       \/ \E progress \in Progresses :
            sb = [op |-> "status", progress |-> progress, done |-> FALSE,
                  out |-> <<>>]
       \/ \E files \in Listings, fileIndex \in 0..MaxFiles :
            sb = [op |-> "offset", files |-> files, fileIndex |-> fileIndex,
                  done |-> FALSE, out |-> <<>>]

ParseToken ==
    /\ sb.op = "token"
    /\ ~sb.done
    /\ sb' = [sb EXCEPT !.done = TRUE, !.out = parseToken(sb.token)]
    /\ UNCHANGED <<pacedVars, sessVars, tokVars, storeVars, restVars>>

ApplyPathMapping ==
    /\ sb.op = "apply"
    /\ ~sb.done
    /\ sb' = [sb EXCEPT !.done = TRUE,
                        !.out = apply([From |-> sb.From, To |-> sb.To], sb.path)]
    /\ UNCHANGED <<pacedVars, sessVars, tokVars, storeVars, restVars>>

BuildFileURL ==
    /\ sb.op = "url"
    /\ ~sb.done
    /\ sb' = [sb EXCEPT !.done = TRUE, !.out = buildFileURL(sb.base, sb.name)]
    /\ UNCHANGED <<pacedVars, sessVars, tokVars, storeVars, restVars>>

ListMagnets ==
    /\ sb.op = "list"
    /\ ~sb.done
    /\ sb' = [sb EXCEPT !.done = TRUE,
                        !.out = ListMagnetsOf(Torrents(sb.total), sb.limit, sb.offset)]
    /\ UNCHANGED <<pacedVars, sessVars, tokVars, storeVars, restVars>>

ProgressToStatus ==
    /\ sb.op = "status"
    /\ ~sb.done
    /\ sb' = [sb EXCEPT !.done = TRUE, !.out = progressToStatus(sb.progress)]
    /\ UNCHANGED <<pacedVars, sessVars, tokVars, storeVars, restVars>>

\* IsFileRangeAvailable up to "if file == nil"
FileOffset ==
    /\ sb.op = "offset"
    /\ ~sb.done
    /\ sb' = [sb EXCEPT !.done = TRUE,
                        !.out = FileOffsetLoop(sb.files, 1, sb.fileIndex, 0)]
    /\ UNCHANGED <<pacedVars, sessVars, tokVars, storeVars, restVars>>

AdapterNext ==
    \/ ParseToken
    \/ ApplyPathMapping
    \/ BuildFileURL
    \/ ListMagnets
    \/ ProgressToStatus
    \/ FileOffset

AdapterSpec == AdapterInit /\ [][AdapterNext]_vars

(***************************************************************************)
(* Properties of the adapter's pure functions (under AdapterSpec).         *)
(***************************************************************************)
\* C26: parseToken gives a token a path mapping if and only if the token has
\* exactly five fields between its "|" and the fifth is not empty and holds a
\* ":"; the mapping's from and to are the fifth field before and after its
\* first ":"; and only tokens of exactly four or five fields are accepted.
C26_FifthFieldPathMapping ==
    (sb # <<>> /\ sb.op = "token" /\ sb.done) =>
        LET fields == Split(sb.token, "|")
            mapped == sb.out.ok /\ sb.out.PathMapping # NoMapping
            wellFormed == /\ Len(fields) = 5
                          /\ fields[5] # <<>>
                          /\ Index(fields[5], ":") >= 0
        IN  /\ mapped <=> wellFormed
            /\ mapped =>
                  /\ sb.out.PathMapping.From =
                        SubSeq(fields[5], 1, Index(fields[5], ":"))
                  /\ sb.out.PathMapping.To =
                        SubSeq(fields[5], Index(fields[5], ":") + 2, Len(fields[5]))
            /\ sb.out.ok => Len(fields) \in {4, 5}

\* C27: with from and to standing for the mapping's From and To without their
\* trailing slashes, apply(from) = to, apply(from + "/" + rest) = to + "/" +
\* rest, and apply(p) = p for every other p.
C27_PathMappingApply ==
    (sb # <<>> /\ sb.op = "apply" /\ sb.done) =>
        LET from == TrimRight(sb.From, "/")
            to == TrimRight(sb.To, "/")
            underFrom == HasPrefix(sb.path, from \o <<"/">>)
        IN  /\ sb.path = from => sb.out = to
            /\ underFrom =>
                  sb.out = to \o SubSeq(sb.path, Len(from) + 1, Len(sb.path))
            /\ (sb.path # from /\ ~underFrom) => sb.out = sb.path

\* The encoding C28 describes: "/" and the unreserved characters stay, every
\* other byte becomes "%" and two hex digits.
RECURSIVE EscapeAllButUnreserved(_)
EscapeAllButUnreserved(s) ==
    IF s = <<>> THEN <<>>
    ELSE (IF s[1] = "/" \/ IsUnreserved(s[1]) THEN <<s[1]>>
          ELSE PercentEncoded(s[1]))
         \o EscapeAllButUnreserved(Tail(s))

\* C28: buildFileURL returns the base URL, a "/", and the file name in which
\* "/" and the unreserved characters are kept and every other byte is
\* percent-encoded.
C28_BuildFileURLEscapes ==
    (sb # <<>> /\ sb.op = "url" /\ sb.done) =>
        sb.out = sb.base \o <<"/">> \o EscapeAllButUnreserved(sb.name)

C30_ProgressToStatusTotal ==
    (sb # <<>> /\ sb.op = "status" /\ sb.done) =>
        /\ sb.out \in {"downloaded", "downloading", "queued"}
        /\ sb.progress >= 1000 <=> sb.out = "downloaded"
        /\ (sb.progress > 0 /\ sb.progress < 1000) <=> sb.out = "downloading"
        /\ sb.progress <= 0 <=> sb.out = "queued"

C30_Witness ==
    /\ sb # <<>>
    /\ sb.op = "status"
    /\ sb.done
    /\ sb.progress = 1000
    /\ sb.out = "downloaded"

\* The sizes of the files of a listing whose index is below idx, added up.
RECURSIVE SizeBelow(_, _, _)
SizeBelow(files, i, idx) ==
    IF i > Len(files) THEN 0
    ELSE (IF files[i].Index < idx THEN files[i].Size ELSE 0)
         + SizeBelow(files, i + 1, idx)

\* C40: the fileOffset found for a file of the torrent is the sum of the sizes
\* of the files with a lower index, in whatever order the backend lists the
\* files.
C40_FileOffsetIsSizeOfLowerIndices ==
    (sb # <<>> /\ sb.op = "offset" /\ sb.done /\ sb.out.found) =>
        sb.out.fileOffset = SizeBelow(sb.files, 1, sb.fileIndex)

(***************************************************************************)
(* The connection limit of the content proxy (endpoint/proxy.go,           *)
(* handleProxyLinkAccess) for the GET requests of one user. cpStore is the *)
(* user's scope of contentProxyConnectionStore, keyed by request id.       *)
(***************************************************************************)
ConnInit ==
    /\ PacedIdle
    /\ SessIdle
    /\ SafeIdle
    /\ TokIdle
    /\ StoreIdle
    /\ CacheIdle
    /\ SchedIdle
    /\ connLimit \in 0..MaxLimit
    /\ cpStore = {}
    /\ conn = [r \in Requests |-> IdleConn]

\* A GET request with a valid token of the user arrives.
Arrive(r) ==
    /\ conn[r].pc = "idle"
    /\ conn' = [conn EXCEPT ![r].pc = IF connLimit > 0 THEN "count" ELSE "set"]
    /\ UNCHANGED <<connLimit, cpStore>>
    /\ UNCHANGED <<pacedVars, sessVars, safeVars, tokVars, storeVars, cacheVars, schedVars>>

\* activeConnectionCount >= limit
LimitReached(count, lim) == count >= lim

\* cpStore.Count() and the comparison with the limit; an error of Count is
\* logged and the request goes on.
Count(r) ==
    /\ conn[r].pc = "count"
    /\ \/ conn' = [conn EXCEPT ![r].pc = "set"]
       \/ LET activeConnectionCount == Cardinality(cpStore)
          IN  conn' = [conn EXCEPT
                         ![r].counted = activeConnectionCount,
                         ![r].pc = IF LimitReached(activeConnectionCount, connLimit)
                                   THEN "redirected" ELSE "set"]
    /\ UNCHANGED <<connLimit, cpStore>>
    /\ UNCHANGED <<pacedVars, sessVars, safeVars, tokVars, storeVars, cacheVars, schedVars>>

\* cpStore.Set(ctx.RequestId, ...); an error of Set is logged and the request
\* is proxied without a record.
Set(r) ==
    /\ conn[r].pc = "set"
    /\ \/ /\ cpStore' = cpStore \cup {r}
          /\ conn' = [conn EXCEPT ![r].pc = "proxy", ![r].recorded = TRUE]
       \/ /\ conn' = [conn EXCEPT ![r].pc = "proxy"]
          /\ UNCHANGED cpStore
    /\ UNCHANGED connLimit
    /\ UNCHANGED <<pacedVars, sessVars, safeVars, tokVars, storeVars, cacheVars, schedVars>>

\* shared.ProxyResponse returns and the deferred cpStore.Del runs.
Finish(r) ==
    /\ conn[r].pc = "proxy"
    /\ cpStore' = IF conn[r].recorded THEN cpStore \ {r} ELSE cpStore
    /\ conn' = [conn EXCEPT ![r] = IdleConn]
    /\ UNCHANGED connLimit
    /\ UNCHANGED <<pacedVars, sessVars, safeVars, tokVars, storeVars, cacheVars, schedVars>>

\* The redirect to the limit-reached video has been answered.
Redirected(r) ==
    /\ conn[r].pc = "redirected"
    /\ conn' = [conn EXCEPT ![r] = IdleConn]
    /\ UNCHANGED <<connLimit, cpStore>>
    /\ UNCHANGED <<pacedVars, sessVars, safeVars, tokVars, storeVars, cacheVars, schedVars>>

DoArrive == \E r \in Requests : Arrive(r)
DoCount == \E r \in Requests : Count(r)
DoSet == \E r \in Requests : Set(r)
DoFinish == \E r \in Requests : Finish(r)
DoRedirected == \E r \in Requests : Redirected(r)

ConnNext ==
    \/ DoArrive
    \/ DoCount
    \/ DoSet
    \/ DoFinish
    \/ DoRedirected

ConnSpec == ConnInit /\ [][ConnNext]_vars

\* The requests of the user that are being proxied.
ActiveConnections == {r \in Requests : conn[r].pc = "proxy"}

\* C38: with a connection limit above zero the user never has more proxied
\* GET connections at once than the limit.
C38_ConnectionsWithinLimit ==
    connLimit > 0 => Cardinality(ActiveConnections) <= connLimit

(***************************************************************************)
(* The per-hash caches of the qBittorrent store (store/qbittorrent/        *)
(* store.go, fileProgressCache, pieceStatesCache, torrentPropsCache) for   *)
(* one hash that two users hold on two backends: the token of user b names *)
(* backend b. The torrent has one file of two pieces. qbitTorrent[b] is    *)
(* the torrent on backend b. An entry remembers when and from which        *)
(* backend it was fetched; the program stores neither.                     *)
(***************************************************************************)
CacheBackends == {1, 2}
fileProgressLifetime == 10     \* seconds
pieceStatesLifetime == 10      \* seconds
torrentPropsLifetime == 3600   \* seconds
MaxCacheClock == 10
CacheClockSteps == {5}

CacheFile == [offset |-> 0, size |-> 2 * PieceSize, first |-> 0, last |-> 1]
CacheNoPieces == <<0, 0>>
CacheRanges ==
    {<<0, PieceSize - 1>>, <<PieceSize, 2 * PieceSize - 1>>, <<0, 2 * PieceSize - 1>>}

\* cache.Get: the entry is there and younger than the lifetime of its cache.
EntryValid(entry, lifetime) == entry # <<>> /\ cnow - entry.at < lifetime

NoAnswer ==
    [op |-> "none", backend |-> 0, err |-> FALSE, used |-> {}, available |-> FALSE,
     safe |-> 0, progress |-> 0, rangeStart |-> 0, rangeEnd |-> 0]

\* if !torrentPropsCache.Get(hash, props) { GetTorrentProperties; Add }
PropsFor(b) ==
    IF EntryValid(torrentPropsCache, torrentPropsLifetime) THEN torrentPropsCache
    ELSE [pieceSize |-> PieceSize, at |-> cnow, from |-> b]

\* if !pieceStatesCache.Get(hash, &states) { GetPieceStates; Add }
StatesFor(b) ==
    IF EntryValid(pieceStatesCache, pieceStatesLifetime) THEN pieceStatesCache
    ELSE [states |-> qbitTorrent[b], at |-> cnow, from |-> b]

\* f.Progress of the file as the backend reports it: downloaded pieces of two.
Progress(st) == Cardinality({p \in 1..Len(st) : st[p] = Downloaded})

CacheInit ==
    /\ PacedIdle
    /\ SessIdle
    /\ SafeIdle
    /\ TokIdle
    /\ StoreIdle
    /\ ConnIdle
    /\ SchedIdle
    /\ qbitTorrent = [b \in CacheBackends |-> CacheNoPieces]
    /\ torrentPropsCache = <<>>
    /\ pieceStatesCache = <<>>
    /\ fileProgressCache = <<>>
    /\ cnow = 0
    /\ answer = <<>>

\* StoreClient.IsFileRangeAvailable for the user of backend b.
StoreIsFileRangeAvailable(b) ==
    /\ \E r \in CacheRanges :
         IF qbitTorrent[b] = <<>>
         THEN /\ answer' = [NoAnswer EXCEPT !.op = "range", !.backend = b, !.err = TRUE]
              /\ UNCHANGED <<torrentPropsCache, pieceStatesCache>>
         ELSE IF AllDownloaded(qbitTorrent[b])
         THEN /\ answer' = [NoAnswer EXCEPT !.op = "range", !.backend = b,
                                            !.used = {b}, !.available = TRUE,
                                            !.rangeStart = r[1], !.rangeEnd = r[2]]
              /\ UNCHANGED <<torrentPropsCache, pieceStatesCache>>
         ELSE /\ torrentPropsCache' = PropsFor(b)
              /\ pieceStatesCache' = StatesFor(b)
              /\ answer' = [NoAnswer EXCEPT
                              !.op = "range", !.backend = b,
                              !.used = {b, PropsFor(b).from, StatesFor(b).from},
                              !.available =
                                 checkRangeAvailable(CacheFile.offset,
                                                     PropsFor(b).pieceSize,
                                                     StatesFor(b).states,
                                                     CacheFile.last, r[1], r[2]),
                              !.rangeStart = r[1], !.rangeEnd = r[2]]
    /\ UNCHANGED <<qbitTorrent, fileProgressCache, cnow>>
    /\ UNCHANGED <<pacedVars, sessVars, safeVars, tokVars, storeVars, connVars, schedVars>>

\* StoreClient.GetFileProgress for the user of backend b: the cache is asked
\* before the token is parsed.
StoreGetFileProgress(b) ==
    /\ IF EntryValid(fileProgressCache, fileProgressLifetime)
       THEN /\ answer' = [NoAnswer EXCEPT !.op = "progress", !.backend = b,
                                          !.used = {fileProgressCache.from},
                                          !.progress = fileProgressCache.progress]
            /\ UNCHANGED fileProgressCache
       ELSE IF qbitTorrent[b] = <<>>
       THEN /\ answer' = [NoAnswer EXCEPT !.op = "progress", !.backend = b,
                                          !.err = TRUE]
            /\ UNCHANGED fileProgressCache
       ELSE /\ fileProgressCache' = [progress |-> Progress(qbitTorrent[b]),
                                     at |-> cnow, from |-> b]
            /\ answer' = [NoAnswer EXCEPT !.op = "progress", !.backend = b,
                                          !.used = {b},
                                          !.progress = Progress(qbitTorrent[b])]
    /\ UNCHANGED <<qbitTorrent, torrentPropsCache, pieceStatesCache, cnow>>
    /\ UNCHANGED <<pacedVars, sessVars, safeVars, tokVars, storeVars, connVars, schedVars>>

\* StoreClient.GetSafeBytes for the user of backend b: the file list is
\* fetched, the piece size and the piece states come through their caches.
StoreGetSafeBytes(b) ==
    /\ IF qbitTorrent[b] = <<>>
       THEN /\ answer' = [NoAnswer EXCEPT !.op = "safe", !.backend = b, !.err = TRUE]
            /\ UNCHANGED <<torrentPropsCache, pieceStatesCache>>
       ELSE IF AllDownloaded(qbitTorrent[b])
       THEN /\ answer' = [NoAnswer EXCEPT !.op = "safe", !.backend = b,
                                          !.used = {b}, !.safe = CacheFile.size]
            /\ UNCHANGED <<torrentPropsCache, pieceStatesCache>>
       ELSE /\ torrentPropsCache' = PropsFor(b)
            /\ pieceStatesCache' = StatesFor(b)
            /\ answer' = [NoAnswer EXCEPT
                            !.op = "safe", !.backend = b,
                            !.used = {b, PropsFor(b).from, StatesFor(b).from},
                            !.safe = ComputeSafeBytes(CacheFile.offset, CacheFile.size,
                                                      PropsFor(b).pieceSize,
                                                      StatesFor(b).states,
                                                      CacheFile.first, CacheFile.last)]
    /\ UNCHANGED <<qbitTorrent, fileProgressCache, cnow>>
    /\ UNCHANGED <<pacedVars, sessVars, safeVars, tokVars, storeVars, connVars, schedVars>>

\* Backend b completes a piece; the answer given before is no longer in use.
BackendPieceCompletes(b) ==
    /\ qbitTorrent[b] # <<>>
    /\ \E p \in 1..Len(qbitTorrent[b]) :
         /\ qbitTorrent[b][p] # Downloaded
         /\ qbitTorrent' = [qbitTorrent EXCEPT ![b][p] = Downloaded]
    /\ answer' = <<>>
    /\ UNCHANGED <<torrentPropsCache, pieceStatesCache, fileProgressCache, cnow>>
    /\ UNCHANGED <<pacedVars, sessVars, safeVars, tokVars, storeVars, connVars, schedVars>>

\* StoreClient.RemoveMagnet for the user of backend b: the torrent and its
\* files are deleted; the caches are left as they are.
StoreRemoveMagnet(b) ==
    /\ qbitTorrent[b] # <<>>
    /\ qbitTorrent' = [qbitTorrent EXCEPT ![b] = <<>>]
    /\ answer' = <<>>
    /\ UNCHANGED <<torrentPropsCache, pieceStatesCache, fileProgressCache, cnow>>
    /\ UNCHANGED <<pacedVars, sessVars, safeVars, tokVars, storeVars, connVars, schedVars>>

\* StoreClient.AddMagnet for the user of backend b: the torrent is added and
\* starts with no piece.
StoreAddMagnet(b) ==
    /\ qbitTorrent[b] = <<>>
    /\ qbitTorrent' = [qbitTorrent EXCEPT ![b] = CacheNoPieces]
    /\ answer' = <<>>
    /\ UNCHANGED <<torrentPropsCache, pieceStatesCache, fileProgressCache, cnow>>
    /\ UNCHANGED <<pacedVars, sessVars, safeVars, tokVars, storeVars, connVars, schedVars>>

CacheTick ==
    /\ \E d \in CacheClockSteps :
         /\ cnow + d <= MaxCacheClock
         /\ cnow' = cnow + d
    /\ answer' = <<>>
    /\ UNCHANGED <<qbitTorrent, torrentPropsCache, pieceStatesCache, fileProgressCache>>
    /\ UNCHANGED <<pacedVars, sessVars, safeVars, tokVars, storeVars, connVars, schedVars>>

DoIsFileRangeAvailable == \E b \in CacheBackends : StoreIsFileRangeAvailable(b)
DoGetFileProgress == \E b \in CacheBackends : StoreGetFileProgress(b)
DoGetSafeBytes == \E b \in CacheBackends : StoreGetSafeBytes(b)
DoBackendPieceCompletes == \E b \in CacheBackends : BackendPieceCompletes(b)
DoRemoveMagnet == \E b \in CacheBackends : StoreRemoveMagnet(b)
DoAddMagnet == \E b \in CacheBackends : StoreAddMagnet(b)

CacheNext ==
    \/ DoIsFileRangeAvailable
    \/ DoGetFileProgress
    \/ DoGetSafeBytes
    \/ DoBackendPieceCompletes
    \/ DoRemoveMagnet
    \/ DoAddMagnet
    \/ CacheTick

CacheSpec == CacheInit /\ [][CacheNext]_vars

(***************************************************************************)
(* Properties of the caches (under CacheSpec).                             *)
(***************************************************************************)
\* C32: an answer given to the user of a backend is made only of what was
\* fetched from that backend: no cached file progress, piece states or torrent
\* properties of another backend go into it.
C32_CacheEntriesStayWithBackend ==
    (answer # <<>> /\ ~answer.err) => answer.used \subseteq {answer.backend}

\* The bytes of the file that the backend holds contiguously from its start.
RECURSIVE ContiguousPrefix(_, _)
ContiguousPrefix(st, p) ==
    IF p > Len(st) \/ st[p] # Downloaded THEN (p - 1) * PieceSize
    ELSE ContiguousPrefix(st, p + 1)

\* C33: the answers in use are lower bounds of what the backend of the user
\* holds: a frontier is at most the contiguous prefix downloaded there, and a
\* range reported available has every one of its pieces downloaded there.
C33_AnswersAreLowerBounds ==
    (answer # <<>> /\ ~answer.err) =>
        /\ answer.op = "safe" =>
              /\ qbitTorrent[answer.backend] # <<>>
              /\ answer.safe <= ContiguousPrefix(qbitTorrent[answer.backend], 1)
        /\ (answer.op = "range" /\ answer.available) =>
              /\ qbitTorrent[answer.backend] # <<>>
              /\ \A p \in (answer.rangeStart \div PieceSize)..
                          (answer.rangeEnd \div PieceSize) :
                    qbitTorrent[answer.backend][p + 1] = Downloaded

(***************************************************************************)
(* The job scheduler (internal/job/scheduler.go): one scheduler id,        *)
(* registered in two instances of the program that share the database.     *)
(* In each instance execute is called by the interval task, by the startup *)
(* timer and by the trigger goroutine. The tracker is followed through its *)
(* last job only: writes to the row of an older job do not change what     *)
(* GetLast returns.                                                        *)
(***************************************************************************)
Instances == {1, 2}
Callers == {"interval", "startup", "trigger"}

HeartbeatInterval == 5     \* seconds, the default of NewScheduler
ToleranceCap == 10         \* seconds
SchedInterval == 6         \* conf.Interval, seconds
MaxSchedClock == 12
SchedClockSteps == {3}

JobStatusStarted == "started"
JobStatusDone == "done"
JobStatusFailed == "failed"

heartbeatIntervalTolerance == Min(HeartbeatInterval, ToleranceCap)

\* util.HasDurationPassedSince(t, d)
HasDurationPassedSince(t, d) == snow - t > d

\* the last job is started and its heartbeat has timed out
HeartbeatTimedOutWithoutTolerance(tjob) ==
    HasDurationPassedSince(tjob.UpdatedAt, HeartbeatInterval)
HeartbeatTimedOut(tjob) ==
    HasDurationPassedSince(tjob.UpdatedAt, HeartbeatInterval + heartbeatIntervalTolerance)

IdleCaller == [pc |-> "idle", jobId |-> -1]

\* jobTracker.Set(id, status, ...) as GetLast sees it.
TrackerSet(id, status) ==
    IF lastJob # <<>> /\ lastJob.Id = id
    THEN [lastJob EXCEPT !.Status = status, !.UpdatedAt = snow]
    ELSE IF lastJob # <<>> /\ lastJob.Id > id
    THEN lastJob
    ELSE [Id |-> id, Status |-> status, CreatedAt |-> snow, UpdatedAt |-> snow]

SchedInit ==
    /\ PacedIdle
    /\ SessIdle
    /\ SafeIdle
    /\ TokIdle
    /\ StoreIdle
    /\ ConnIdle
    /\ CacheIdle
    /\ runExclusive \in BOOLEAN
    /\ mu = [i \in Instances |-> "free"]
    /\ advisoryLock = <<>>
    /\ lastJob = <<>>
    /\ snow = 0
    /\ sch = [i \in Instances |-> [c \in Callers |-> IdleCaller]]
    /\ returned = <<>>

\* execute returns: the deferred lock.Release and mu.Unlock run.
Returned(i, c, why) ==
    /\ sch' = [sch EXCEPT ![i][c] = IdleCaller]
    /\ returned' = <<i, why>>
    /\ mu' = [mu EXCEPT ![i] = "free"]
    /\ advisoryLock' = IF advisoryLock = <<i, c>> THEN <<>> ELSE advisoryLock

\* j.mu.Lock() and conf.ShouldSkip()
SchLock(i, c) ==
    /\ sch[i][c].pc = "idle"
    /\ mu[i] = "free"
    /\ \/ /\ mu' = [mu EXCEPT ![i] = c]
          /\ sch' = [sch EXCEPT ![i][c].pc = "locked"]
          /\ UNCHANGED returned
       \/ /\ returned' = <<i, "skipping">>
          /\ UNCHANGED <<mu, sch>>
    /\ UNCHANGED <<runExclusive, advisoryLock, lastJob, snow>>
    /\ UNCHANGED <<pacedVars, sessVars, safeVars, tokVars, storeVars, connVars, cacheVars>>

\* lock.TryAcquire()
SchTryAcquire(i, c) ==
    /\ sch[i][c].pc = "locked"
    /\ IF advisoryLock = <<>>
       THEN /\ advisoryLock' = <<i, c>>
            /\ sch' = [sch EXCEPT ![i][c].pc = "acquired"]
            /\ UNCHANGED <<mu, returned>>
       ELSE Returned(i, c, "another instance is running")
    /\ UNCHANGED <<runExclusive, lastJob, snow>>
    /\ UNCHANGED <<pacedVars, sessVars, safeVars, tokVars, storeVars, connVars, cacheVars>>

\* What the RunExclusive switch decides for the last job: "run", or why not.
ExclusiveDecision(tjob, triggered) ==
    IF tjob = <<>> THEN "run"
    ELSE IF tjob.Status = JobStatusStarted
    THEN IF ~HeartbeatTimedOut(tjob) THEN "last job is still running" ELSE "restart"
    ELSE IF tjob.Status = JobStatusDone
    THEN IF ~triggered /\ ~HasDurationPassedSince(tjob.CreatedAt, SchedInterval)
         THEN "already done" ELSE "run"
    ELSE "run"

\* From conf.OnStart() to the start of the heartbeat: the RunExclusive check,
\* the new job set to started, the advisory lock released.
SchStart(i, c) ==
    /\ sch[i][c].pc = "acquired"
    /\ LET decision == IF runExclusive THEN ExclusiveDecision(lastJob, c = "trigger")
                       ELSE "run"
           afterRestart == IF decision = "restart"
                           THEN {lastJob, [lastJob EXCEPT !.Status = JobStatusFailed,
                                                          !.UpdatedAt = snow]}
                           ELSE {lastJob}
       IN  \/ /\ runExclusive
              /\ Returned(i, c, "failed to get last job")
              /\ UNCHANGED lastJob
           \/ /\ decision \notin {"run", "restart"}
              /\ Returned(i, c, decision)
              /\ UNCHANGED lastJob
           \/ /\ decision \in {"run", "restart"}
              /\ \E tracked \in afterRestart :
                   \/ /\ lastJob' = tracked
                      /\ Returned(i, c, "failed to set job status")
                   \/ /\ lastJob' = IF tracked # <<>> /\ tracked.Id = snow
                                    THEN [tracked EXCEPT !.Status = JobStatusStarted,
                                                         !.UpdatedAt = snow]
                                    ELSE [Id |-> snow, Status |-> JobStatusStarted,
                                          CreatedAt |-> snow, UpdatedAt |-> snow]
                      /\ advisoryLock' = <<>>
                      /\ sch' = [sch EXCEPT ![i][c].pc = "running",
                                            ![i][c].jobId = snow]
                      /\ UNCHANGED <<mu, returned>>
    /\ UNCHANGED <<runExclusive, snow>>
    /\ UNCHANGED <<pacedVars, sessVars, safeVars, tokVars, storeVars, connVars, cacheVars>>

\* The heartbeat goroutine of a running job: jobTracker.Set(jobId, started).
SchHeartbeat(i, c) ==
    /\ sch[i][c].pc = "running"
    /\ lastJob' = TrackerSet(sch[i][c].jobId, JobStatusStarted)
    /\ lastJob' # lastJob
    /\ UNCHANGED <<runExclusive, mu, advisoryLock, snow, sch, returned>>
    /\ UNCHANGED <<pacedVars, sessVars, safeVars, tokVars, storeVars, connVars, cacheVars>>

\* conf.Executor returns; the job is set to done or failed (or the write fails).
SchFinish(i, c) ==
    /\ sch[i][c].pc = "running"
    /\ \E status \in {JobStatusDone, JobStatusFailed} :
         lastJob' \in {lastJob, TrackerSet(sch[i][c].jobId, status)}
    /\ Returned(i, c, "executed")
    /\ UNCHANGED <<runExclusive, snow>>
    /\ UNCHANGED <<pacedVars, sessVars, safeVars, tokVars, storeVars, connVars, cacheVars>>

SchTick ==
    /\ \E d \in SchedClockSteps :
         /\ snow + d <= MaxSchedClock
         /\ snow' = snow + d
    /\ UNCHANGED <<runExclusive, mu, advisoryLock, lastJob, sch, returned>>
    /\ UNCHANGED <<pacedVars, sessVars, safeVars, tokVars, storeVars, connVars, cacheVars>>

DoSchLock == \E i \in Instances, c \in Callers : SchLock(i, c)
DoSchTryAcquire == \E i \in Instances, c \in Callers : SchTryAcquire(i, c)
DoSchStart == \E i \in Instances, c \in Callers : SchStart(i, c)
DoSchHeartbeat == \E i \in Instances, c \in Callers : SchHeartbeat(i, c)
DoSchFinish == \E i \in Instances, c \in Callers : SchFinish(i, c)

SchedNext ==
    \/ DoSchLock
    \/ DoSchTryAcquire
    \/ DoSchStart
    \/ DoSchHeartbeat
    \/ DoSchFinish
    \/ SchTick

SchedSpec == SchedInit /\ [][SchedNext]_vars

(***************************************************************************)
(* Properties of the scheduler (under SchedSpec).                          *)
(***************************************************************************)
\* The callers of an instance that are inside execute, past j.mu.Lock().
Executing(i) == {c \in Callers : sch[i][c].pc # "idle"}

\* C39: in one instance at most one caller is inside execute at a time, so
\* its executions never overlap; and with RunExclusive no caller of any
\* instance starts an execution while the last tracked job is started and its
\* last heartbeat is younger than HeartbeatInterval + min(HeartbeatInterval,
\* 10 s).
C39_ExecutionsNeverOverlap ==
    /\ [](\A i \in Instances :
            /\ Cardinality(Executing(i)) <= 1
            /\ \A c \in Executing(i) : mu[i] = c)
    /\ [][\A i \in Instances, c \in Callers :
            (runExclusive /\ sch[i][c].pc # "running" /\ sch'[i][c].pc = "running") =>
                ~(/\ lastJob # <<>>
                  /\ lastJob.Status = JobStatusStarted
                  /\ snow - lastJob.UpdatedAt
                       < HeartbeatInterval + Min(HeartbeatInterval, ToleranceCap))]_vars

C39_Witness ==
    /\ runExclusive
    /\ sch[1]["interval"].pc = "running"
    /\ returned = <<2, "last job is still running">>
    /\ lastJob.Id = sch[1]["interval"].jobId
    /\ lastJob.Status = "started"
    /\ snow - lastJob.UpdatedAt = 9

====
